---------------------------- MODULE Spec2Model ----------------------------
(***************************************************************************)
(* A model of the finance tracker's client-side logic: the reminder        *)
(* due-date functions and the notification badge (Header.tsx, which also   *)
(* holds the Reminders page), the budget evaluation of Budget.tsx and the  *)
(* aggregations of the Dashboard and Analytics pages.                      *)
(*                                                                         *)
(* Number model.  Amounts are decimals of the store (numeric columns);     *)
(* they are held here as whole numbers of the smallest currency unit and   *)
(* sums and differences are exact.  A JavaScript number that comes out of  *)
(* a division is a record: a finite quotient [k |-> "fin", n, d], or the   *)
(* values a division by zero produces, [k |-> "inf"] and [k |-> "nan"].    *)
(* The binary rounding of IEEE-754 doubles is not modelled.                *)
(*                                                                         *)
(* Date model.  A calendar date is [y, m, d] with m in 1..12.  The         *)
(* JavaScript Date constructor is modelled by ECMAScript's day-number      *)
(* arithmetic (MakeDay, YearFromTime, MonthFromTime, DateFromTime).        *)
(***************************************************************************)
EXTENDS Integers, Sequences, FiniteSets, TLC

VARIABLES
    today,            \* the client's clock: what new Date() reads, [y, m, d]
    dueDate,          \* Reminders: the dueDate argument of the call at hand
    isActive,         \* Reminders: the isActive argument of the call at hand
    daysUntil,        \* Reminders: <<result>> of getDaysUntilDue, <<>> before the call
    badge,            \* Reminders: <<result>> of getStatusBadge, <<>> before the call
    bill_reminders,   \* store: the user's bill_reminders rows, in insertion order
    notifications,    \* Header: the count shown on the bell
    headerData,       \* Header: <<data>> the last successful loadNotifications got, else <<>>
    reminders,        \* Reminders page: the list shown
    remindersLoading, \* Reminders page: the loading flag
    timezone,         \* the client's offset from UTC in hours (local = UTC + timezone)
    transactions,     \* store: the user's transactions rows, in insertion order
    budgetsTable,     \* store: the user's budgets rows
    budgets,          \* Budget page: the budgets shown, each with its spent figure
    budgetLoading,    \* Budget page: the loading flag
    selectedMonth,    \* Budget page: the month selected, 1..12
    selectedYear,     \* Budget page: the year selected
    showModal,        \* Budget page: whether the Set Budget form is open
    stats,            \* Dashboard: totalIncome, totalExpenses, totalSavings
    recentTransactions, \* Dashboard: the five latest transactions of the month
    dashboardLoading, \* Dashboard: the loading flag
    categoryExpenses, \* Analytics: the category breakdown shown
    monthlyData,      \* Analytics: the six-month series shown
    analyticsLoading, \* Analytics: the loading flag
    user,             \* the signed-in user's id: auth.uid() of the requests sent
    categories,       \* store: the categories rows of every user
    writeError,       \* whether the response to the last write carried an error
    txCategories,     \* Transactions page: the categories loaded, in the order received
    txFormData,       \* Transactions page: the Add Transaction form (amount, type, category_id)
    txShowModal,      \* Transactions page: whether the Add Transaction form is open
    txTransactions,   \* Transactions page: the transactions shown
    txLoading,        \* Transactions page: the loading flag
    requestAmount,    \* <<amount>> of the last insert the Transactions form sent, else <<>>
                      \* (the JavaScript number that parseFloat returned)
    budgetLoads,      \* Budget page: the loadBudgets calls in flight, each with the month
                      \* and year it was started for
    remPending,       \* Reminders page: the loads in flight, "categories" and "reminders"
    remCategories,    \* Reminders page: the categories loaded
    toggled,          \* history: the ids of the reminders whose toggle was clicked an odd
                      \* number of times
    accounts,         \* Firebase: the password of each registered e-mail address
    firebaseUser,     \* Firebase: the user signed in, NoUser when none
    authResult,       \* what the last signUp or signIn call returned, <<>> before any
    screen,           \* what AppContent rendered last
    pageLoads         \* the pages whose load on mount is in flight

dueVars == <<dueDate, isActive, daysUntil, badge>>
reminderVars == <<bill_reminders, notifications, headerData, reminders, remindersLoading>>
storeVars == <<timezone, transactions>>
sessionVars == <<user, categories, writeError>>
txPageVars == <<txCategories, txFormData, txShowModal, txTransactions, txLoading,
               requestAmount>>
budgetVars == <<budgetsTable, budgets, budgetLoading, selectedMonth, selectedYear, showModal>>
pageVars == <<stats, recentTransactions, dashboardLoading, categoryExpenses, monthlyData,
             analyticsLoading>>
authVars == <<accounts, firebaseUser, authResult, screen>>
flightVars == <<budgetLoads, remPending, remCategories, toggled>>
vars == <<today, pageLoads, authVars, flightVars, txPageVars, sessionVars, dueVars, reminderVars, storeVars, budgetVars, pageVars>>

(***************************************************************************)
(* JavaScript Date: new Date(year, monthIndex, day) and its getters.       *)
(***************************************************************************)

\* ECMAScript DaysInYear / InLeapYear.
InLeapYear(y) == (y % 4 = 0 /\ y % 100 # 0) \/ y % 400 = 0

\* ECMAScript DayFromYear: the day number of 1 January of year y (1970 -> 0).
DayFromYear(y) == 365 * (y - 1970) + ((y - 1969) \div 4) - ((y - 1901) \div 100) + ((y - 1601) \div 400)

\* Days of the year before the first day of month index mi (0..11), as in
\* ECMAScript MonthFromTime.
DaysBeforeMonth(mi, leap) ==
    LET L == IF leap THEN 1 ELSE 0
    IN  CASE mi = 0 -> 0
          [] mi = 1 -> 31
          [] mi = 2 -> 59 + L
          [] mi = 3 -> 90 + L
          [] mi = 4 -> 120 + L
          [] mi = 5 -> 151 + L
          [] mi = 6 -> 181 + L
          [] mi = 7 -> 212 + L
          [] mi = 8 -> 243 + L
          [] mi = 9 -> 273 + L
          [] mi = 10 -> 304 + L
          [] OTHER -> 334 + L

\* ECMAScript MakeDay(year, month, date): month is an index that may lie
\* outside 0..11 and date may be 0 or exceed the month; both carry over.
MakeDay(year, month, date) ==
    LET ym == year + (month \div 12)
        mn == month % 12
    IN  DayFromYear(ym) + DaysBeforeMonth(mn, InLeapYear(ym)) + date - 1

\* ECMAScript YearFromTime, on day numbers.
YearFromDay(day) ==
    LET guess == 1970 + (day \div 365)
    IN  IF DayFromYear(guess) <= day THEN guess ELSE guess - 1

\* ECMAScript MonthFromTime, on day numbers: the month index 0..11.
MonthFromDay(day) ==
    LET y == YearFromDay(day)
        dayInYear == day - DayFromYear(y)
        leap == InLeapYear(y)
    IN  CHOOSE mi \in 0..11 :
            /\ DaysBeforeMonth(mi, leap) <= dayInYear
            /\ (mi = 11 \/ dayInYear < DaysBeforeMonth(mi + 1, leap))

\* ECMAScript DateFromTime, on day numbers: the day of the month 1..31.
DateFromDay(day) ==
    LET y == YearFromDay(day)
    IN  day - DayFromYear(y) - DaysBeforeMonth(MonthFromDay(day), InLeapYear(y)) + 1

\* new Date(year, monthIndex, day) in local time, as the local calendar date.
NewDate(year, monthIndex, day) ==
    LET n == MakeDay(year, monthIndex, day)
    IN  [y |-> YearFromDay(n), m |-> MonthFromDay(n) + 1, d |-> DateFromDay(n)]

getFullYear(date) == date.y
getMonth(date) == date.m - 1
getDate(date) == date.d

(***************************************************************************)
(* Reminders: due-date functions.                                          *)
(***************************************************************************)

\* The due_date column admits 1..31.
MinDueDay == 1
MaxDueDay == 31
DueDays == MinDueDay..MaxDueDay

getDaysUntilDue_prevMonth(due, now) ==
    LET t == getDate(now)
        days == due - t
        daysInMonth == getDate(NewDate(getFullYear(now), getMonth(now), 0))
    IN  IF days < 0 THEN daysInMonth - t + due ELSE days

getDaysUntilDue_wrapOnZero(due, now) ==
    LET t == getDate(now)
        days == due - t
        daysInMonth == getDate(NewDate(getFullYear(now), getMonth(now) + 1, 0))
    IN  IF days <= 0 THEN daysInMonth - t + due ELSE days

getDaysUntilDue_wrapLessOne(due, now) ==
    LET t == getDate(now)
        days == due - t
        daysInMonth == getDate(NewDate(getFullYear(now), getMonth(now) + 1, 0))
    IN  IF days < 0 THEN daysInMonth - t + due - 1 ELSE days

\* getDaysUntilDue(dueDate), with the value new Date() reads made explicit.
getDaysUntilDue(due, now) ==
    LET t == getDate(now)
        days == due - t
        daysInMonth == getDate(NewDate(getFullYear(now), getMonth(now) + 1, 0))
    IN  IF days < 0 THEN daysInMonth - t + due ELSE days

getStatusBadge_strictThree(due, active, now) ==
    IF ~active
    THEN [text |-> "Inactive", n |-> 0, className |-> "slate"]
    ELSE LET du == getDaysUntilDue(due, now)
         IN  IF du = 0 THEN [text |-> "Due Today", n |-> 0, className |-> "red"]
             ELSE IF du < 3 THEN [text |-> "Due in", n |-> du, className |-> "amber"]
             ELSE IF du <= 7 THEN [text |-> "Due in", n |-> du, className |-> "blue"]
             ELSE [text |-> "Due on", n |-> due, className |-> "green"]

\* getStatusBadge(dueDate, isActive): the badge text ("Due in <n> days",
\* "Due on <n>th") and the colour family of its className.
getStatusBadge(due, active, now) ==
    IF ~active
    THEN [text |-> "Inactive", n |-> 0, className |-> "slate"]
    ELSE LET du == getDaysUntilDue(due, now)
         IN  IF du = 0 THEN [text |-> "Due Today", n |-> 0, className |-> "red"]
             ELSE IF du <= 3 THEN [text |-> "Due in", n |-> du, className |-> "amber"]
             ELSE IF du <= 7 THEN [text |-> "Due in", n |-> du, className |-> "blue"]
             ELSE [text |-> "Due on", n |-> due, className |-> "green"]

(***************************************************************************)
(* Calendar of the model: the dates the clock may show.                    *)
(***************************************************************************)

\* A year divisible by 400, a common year, a leap year, a century common year.
Years == {2000, 2023, 2024, 2100}

\* The Gregorian calendar, stated apart from the Date arithmetic above.
IsLeapYear(y) == y % 4 = 0 /\ (y % 100 # 0 \/ y % 400 = 0)

MonthLength(y, m) ==
    IF m = 2 THEN (IF IsLeapYear(y) THEN 29 ELSE 28)
    ELSE IF m \in {4, 6, 9, 11} THEN 30 ELSE 31

Dates == {[y |-> y, m |-> m, d |-> d] : y \in Years, m \in 1..12, d \in 1..31}

ValidDates == {dt \in Dates : dt.d <= MonthLength(dt.y, dt.m)}

(***************************************************************************)
(* The state of each part before it is used; a specification that does     *)
(* not exercise a part keeps it there.                                     *)
(***************************************************************************)

InitDueIdle ==
    /\ dueDate = 1
    /\ isActive = TRUE
    /\ daysUntil = <<>>
    /\ badge = <<>>

InitRemindersIdle ==
    /\ bill_reminders = <<>>
    /\ notifications = 0
    /\ headerData = <<>>
    /\ reminders = <<>>
    /\ remindersLoading = TRUE

InitStoreIdle ==
    /\ timezone = 0
    /\ transactions = <<>>

\* The two accounts of the model.
Users == {"u1", "u2"}

\* The category select of the Add Transaction form before a choice: ''.
NoCategory == ""

\* The Transactions page as mounted: its useState initial values.
InitTxPageIdle ==
    /\ txCategories = <<>>
    /\ txFormData = [amount |-> <<>>, type |-> "expense", category_id |-> NoCategory]
    /\ txShowModal = FALSE
    /\ txTransactions = <<>>
    /\ txLoading = TRUE
    /\ requestAmount = <<>>

\* getAuth().currentUser when nobody is signed in.
NoUser == "null"

\* Nobody registered, nobody signed in, the auth form on the screen.
InitAuthIdle ==
    /\ accounts = <<>>
    /\ firebaseUser = NoUser
    /\ authResult = <<>>
    /\ screen = "AuthForm"

\* No load in flight.
InitFlightIdle ==
    /\ budgetLoads = {}
    /\ remPending = {}
    /\ remCategories = <<>>
    /\ toggled = {}

InitSessionIdle ==
    /\ user = "u1"
    /\ categories = {}
    /\ writeError = FALSE

InitBudgetIdle ==
    /\ budgetsTable = {}
    /\ budgets = {}
    /\ budgetLoading = TRUE
    /\ selectedMonth = getMonth(today) + 1
    /\ selectedYear = getFullYear(today)
    /\ showModal = FALSE

InitPagesIdle ==
    /\ stats = [totalIncome |-> 0, totalExpenses |-> 0, totalSavings |-> 0]
    /\ recentTransactions = <<>>
    /\ dashboardLoading = TRUE
    /\ categoryExpenses = <<>>
    /\ monthlyData = <<>>
    /\ analyticsLoading = TRUE

(***************************************************************************)
(* SpecDue: the due-date functions applied to every date and due day.      *)
(***************************************************************************)

InitDue ==
    /\ today \in ValidDates
    /\ dueDate \in DueDays
    /\ isActive \in BOOLEAN
    /\ daysUntil = <<>>
    /\ badge = <<>>
    /\ InitRemindersIdle
    /\ InitStoreIdle
    /\ InitBudgetIdle
    /\ InitPagesIdle
    /\ pageLoads = {}
    /\ InitAuthIdle
    /\ InitFlightIdle
    /\ InitTxPageIdle
    /\ InitSessionIdle

CallGetDaysUntilDue ==
    /\ daysUntil = <<>>
    /\ daysUntil' = <<getDaysUntilDue(dueDate, today)>>
    /\ UNCHANGED <<today, pageLoads, authVars, flightVars, txPageVars, sessionVars, dueDate, isActive, badge, reminderVars, storeVars, budgetVars, pageVars>>

CallGetStatusBadge ==
    /\ badge = <<>>
    /\ badge' = <<getStatusBadge(dueDate, isActive, today)>>
    /\ UNCHANGED <<today, pageLoads, authVars, flightVars, txPageVars, sessionVars, dueDate, isActive, daysUntil, reminderVars, storeVars, budgetVars, pageVars>>

NextDue == CallGetDaysUntilDue \/ CallGetStatusBadge

SpecDue == InitDue /\ [][NextDue]_vars

(***************************************************************************)
(* Claims on the due-date functions (SpecDue).                             *)
(***************************************************************************)

\* C1: for every due day in 1..31 and every date, getDaysUntilDue returns
\* dueDay - today.day when dueDay >= today.day and otherwise
\* (length of today's month - today.day) + dueDay, the length being the
\* calendar's (28/29/30/31); on the last day of a month a smaller due day
\* gives the due day itself.
C1_DaysUntilDueFormula ==
    daysUntil # <<>> =>
        /\ daysUntil[1] = IF dueDate >= today.d
                          THEN dueDate - today.d
                          ELSE (MonthLength(today.y, today.m) - today.d) + dueDate
        /\ (today.d = MonthLength(today.y, today.m) /\ dueDate < today.d)
               => daysUntil[1] = dueDate

\* C1 witness: 28 February of a common year, due day 2, computed as 2.
C1_Witness ==
    /\ today = [y |-> 2023, m |-> 2, d |-> 28]
    /\ dueDate = 2
    /\ daysUntil = <<2>>

\* C2: the result of getDaysUntilDue is in 0..30, and it is 0 whenever
\* today's day of month equals the due day.
C2_DaysUntilDueRange ==
    daysUntil # <<>> =>
        /\ daysUntil[1] \in 0..30
        /\ (today.d = dueDate => daysUntil[1] = 0)

\* C2 witness: the largest result, 30, taken on the month-wrap branch
\* (31 January, due day 30).
C2_Witness ==
    /\ today.d = 31
    /\ dueDate = 30
    /\ daysUntil = <<30>>

\* The urgency the claim assigns to a (daysUntil, isActive) pair, as the
\* colour family that renders it.
C3_Urgency(du, active) ==
    CASE ~active -> "slate"
      [] active /\ du = 0 -> "red"
      [] active /\ du \in 1..3 -> "amber"
      [] active /\ du \in 4..7 -> "blue"
      [] active /\ du >= 8 -> "green"

\* C3: urgency is decided first match wins: not active -> Inactive;
\* daysUntil 0 -> DueToday; <= 3 -> Imminent; <= 7 -> Upcoming; otherwise
\* Scheduled, so 3 is Imminent, 4 and 7 are Upcoming and 8 is Scheduled.
C3_UrgencyOrder ==
    badge # <<>> =>
        LET du == getDaysUntilDue(dueDate, today)
        IN  /\ badge[1].className = C3_Urgency(du, isActive)
            /\ (badge[1].text = "Inactive") = ~isActive
            /\ (isActive /\ du = 3) => badge[1] = [text |-> "Due in", n |-> 3, className |-> "amber"]
            /\ (isActive /\ du = 4) => badge[1] = [text |-> "Due in", n |-> 4, className |-> "blue"]
            /\ (isActive /\ du = 7) => badge[1] = [text |-> "Due in", n |-> 7, className |-> "blue"]
            /\ (isActive /\ du = 8) => badge[1] = [text |-> "Due on", n |-> dueDate, className |-> "green"]

\* C3 witness: an active bill exactly 3 days ahead is shown as Imminent.
C3_Witness ==
    /\ isActive
    /\ getDaysUntilDue(dueDate, today) = 3
    /\ badge # <<>>
    /\ badge[1].className = "amber"

(***************************************************************************)
(* Header bell and Reminders page: the loads and the upcoming banner.      *)
(***************************************************************************)

\* The longest store the model draws.
MaxReminders == 2

RECURSIVE InsertByDue(_, _)
InsertByDue(row, sorted) ==
    IF sorted = <<>> THEN <<row>>
    ELSE IF row.due_date < Head(sorted).due_date
         THEN <<row>> \o sorted
         ELSE <<Head(sorted)>> \o InsertByDue(row, Tail(sorted))

\* .order('due_date'): ascending by due day.
RECURSIVE OrderByDueDate(_)
OrderByDueDate(rows) ==
    IF rows = <<>> THEN <<>>
    ELSE InsertByDue(Head(rows), OrderByDueDate(Tail(rows)))

\* The filter of Header.loadNotifications over the rows it fetched.
HeaderUpcoming(data, now) ==
    SelectSeq(data, LAMBDA bill :
        LET du == bill.due_date - getDate(now) IN du >= 0 /\ du <= 3)

\* Header.loadNotifications: the active rows are fetched; a fetch that
\* fails yields no data and leaves the count as it was.
Header_loadNotifications ==
    /\ \E ok \in BOOLEAN :
        IF ok
        THEN LET data == SelectSeq(bill_reminders, LAMBDA bill : bill.is_active)
             IN  /\ headerData' = <<data>>
                 /\ notifications' = Len(HeaderUpcoming(data, today))
        ELSE UNCHANGED <<headerData, notifications>>
    /\ UNCHANGED <<today, pageLoads, authVars, flightVars, txPageVars, sessionVars, dueVars, bill_reminders, reminders, remindersLoading, storeVars, budgetVars, pageVars>>

\* Reminders.loadReminders: the list is replaced when data arrives, and the
\* loading flag is cleared either way.
Reminders_loadReminders ==
    /\ \E ok \in BOOLEAN :
        IF ok
        THEN reminders' = OrderByDueDate(bill_reminders)
        ELSE UNCHANGED reminders
    /\ remindersLoading' = FALSE
    /\ UNCHANGED <<today, pageLoads, authVars, flightVars, txPageVars, sessionVars, dueVars, bill_reminders, notifications, headerData, storeVars, budgetVars, pageVars>>

\* Reminders: upcomingReminders, the list behind the page's banner.
upcomingReminders(list, now) ==
    SelectSeq(list, LAMBDA r : r.is_active /\ getDaysUntilDue(r.due_date, now) <= 7)

ReminderRows == [due_date : DueDays, is_active : BOOLEAN]

ReminderStores == UNION {[1..n -> ReminderRows] : n \in 0..MaxReminders}

\* Month ends of 28, 29, 30 and 31 days, and days inside a month.
ReminderDates ==
    { [y |-> 2023, m |-> 2, d |-> 28], [y |-> 2024, m |-> 2, d |-> 29],
      [y |-> 2023, m |-> 4, d |-> 30], [y |-> 2023, m |-> 12, d |-> 31],
      [y |-> 2023, m |-> 6, d |-> 10], [y |-> 2024, m |-> 1, d |-> 1] }

InitReminders ==
    /\ today \in ReminderDates
    /\ InitDueIdle
    /\ bill_reminders \in ReminderStores
    /\ notifications = 0
    /\ headerData = <<>>
    /\ reminders = <<>>
    /\ remindersLoading = TRUE
    /\ InitStoreIdle
    /\ InitBudgetIdle
    /\ InitPagesIdle
    /\ pageLoads = {}
    /\ InitAuthIdle
    /\ InitFlightIdle
    /\ InitTxPageIdle
    /\ InitSessionIdle

NextReminders == Header_loadNotifications \/ Reminders_loadReminders

SpecReminders == InitReminders /\ [][NextReminders]_vars

\* The number of active bills due within a week, month-wrap included.
UpcomingCount(rows, now) ==
    Cardinality({i \in 1..Len(rows) :
        rows[i].is_active /\ getDaysUntilDue(rows[i].due_date, now) <= 7})

\* C4: the count behind the notification badge equals the number of active
\* bills whose days until due (with month-wrap) are at most 7, and the
\* header badge and the Reminders banner report the same count for the same
\* bills and date.
C4_BadgeCountsUpcoming ==
    headerData # <<>> =>
        /\ notifications = UpcomingCount(bill_reminders, today)
        /\ (~remindersLoading /\ Len(reminders) = Len(bill_reminders))
               => notifications = Len(upcomingReminders(reminders, today))

(***************************************************************************)
(* JavaScript numbers that come out of a division.                         *)
(***************************************************************************)

NaN == [k |-> "nan"]
Infinity == [k |-> "inf"]

\* a / b for amounts a >= 0 and b >= 0.
jsDivide(a, b) ==
    IF b = 0
    THEN (IF a = 0 THEN NaN ELSE Infinity)
    ELSE [k |-> "fin", n |-> a, d |-> b]

\* x * c for an integer c > 0.
jsTimes(x, c) == IF x.k = "fin" THEN [x EXCEPT !.n = x.n * c] ELSE x

\* x >= c for an integer c; every comparison with NaN is false.
jsAtLeast(x, c) ==
    CASE x.k = "fin" -> x.n >= c * x.d
      [] x.k = "inf" -> TRUE
      [] OTHER -> FALSE

\* x > c for an integer c.
jsGreater(x, c) ==
    CASE x.k = "fin" -> x.n > c * x.d
      [] x.k = "inf" -> TRUE
      [] OTHER -> FALSE

(***************************************************************************)
(* Date.toISOString().split('T')[0] and the comparison of ISO dates.       *)
(***************************************************************************)

\* The UTC calendar date of local midnight of `date`: east of UTC the
\* instant falls on the previous UTC day.
toISODate(date, tz) ==
    LET n == MakeDay(getFullYear(date), getMonth(date), getDate(date))
        u == IF tz > 0 THEN n - 1 ELSE n
    IN  [y |-> YearFromDay(u), m |-> MonthFromDay(u) + 1, d |-> DateFromDay(u)]

\* a <= b on dates written yyyy-mm-dd.
DateLE(a, b) ==
    \/ a.y < b.y
    \/ a.y = b.y /\ a.m < b.m
    \/ a.y = b.y /\ a.m = b.m /\ a.d <= b.d

(***************************************************************************)
(* Budget page.                                                            *)
(***************************************************************************)

CategoryIds == {"c1", "c2"}

RECURSIVE SumAmounts(_)
SumAmounts(rows) ==
    IF rows = <<>> THEN 0 ELSE Head(rows).amount + SumAmounts(Tail(rows))

\* The transactions query of Budget.loadBudgets: the expenses dated from
\* firstDay to lastDay of the month selected.
monthExpenses(txTable, month, year, tz) ==
    LET firstDay == toISODate(NewDate(year, month - 1, 1), tz)
        lastDay == toISODate(NewDate(year, month, 0), tz)
    IN  SelectSeq(txTable, LAMBDA t :
            /\ t.type = "expense"
            /\ DateLE(firstDay, t.date)
            /\ DateLE(t.date, lastDay))

\* spentByCategory[c], 0 for a category without a transaction.
spentByCategory(transactionData, c) ==
    SumAmounts(SelectSeq(transactionData, LAMBDA t : t.category_id = c))

\* budgetsWithSpent: each budget with its category's sum.
budgetsWithSpent(budgetData, transactionData) ==
    {[user_id |-> b.user_id, category_id |-> b.category_id, amount |-> b.amount,
      month |-> b.month, year |-> b.year,
      spent |-> spentByCategory(transactionData, b.category_id)] : b \in budgetData}

\* loadBudgets with setLoading(false) inside the `if (budgetData)` block.
loadBudgets_loadingInsideIf(table, month, year) ==
    \E ok \in BOOLEAN :
        IF ok
        THEN /\ \E txOk \in BOOLEAN :
                    budgets' = budgetsWithSpent(
                        {b \in table : b.user_id = user /\ b.month = month /\ b.year = year},
                        IF txOk THEN monthExpenses(transactions, month, year, timezone)
                        ELSE <<>>)
             /\ budgetLoading' = FALSE
        ELSE UNCHANGED <<budgets, budgetLoading>>

\* Budget.loadBudgets for the month and year selected, from the point where
\* the budgets fetch is answered:
\* without budget data the list stays as it was; with it the month's
\* expenses are fetched (no data counts as no expense) and the list is
\* replaced.  The loading flag is cleared either way.
loadBudgets(table, month, year) ==
    /\ \E ok \in BOOLEAN :
        IF ok
        THEN \E txOk \in BOOLEAN :
             \E budgetData \in {{b \in table : b.user_id = user /\ b.month = month /\ b.year = year}} :
             \E transactionData \in
                     {IF txOk
                      THEN monthExpenses(transactions, month, year, timezone)
                      ELSE <<>>} :
                 budgets' = budgetsWithSpent(budgetData, transactionData)
        ELSE UNCHANGED budgets
    /\ budgetLoading' = FALSE

\* Budget.loadBudgets, run by the page's effect.
Budget_loadBudgets ==
    /\ loadBudgets(budgetsTable, selectedMonth, selectedYear)
    /\ UNCHANGED <<today, pageLoads, authVars, flightVars, txPageVars, sessionVars, dueVars, reminderVars, storeVars, pageVars, budgetsTable,
                   selectedMonth, selectedYear, showModal>>

\* The Set Budget button and the form's Cancel and close buttons.
Budget_openModal ==
    /\ ~budgetLoading
    /\ ~showModal
    /\ showModal' = TRUE
    /\ UNCHANGED <<today, pageLoads, authVars, flightVars, txPageVars, sessionVars, dueVars, reminderVars, storeVars, pageVars, budgetsTable, budgets,
                   budgetLoading, selectedMonth, selectedYear>>

Budget_closeModal ==
    /\ showModal
    /\ showModal' = FALSE
    /\ UNCHANGED <<today, pageLoads, authVars, flightVars, txPageVars, sessionVars, dueVars, reminderVars, storeVars, pageVars, budgetsTable, budgets,
                   budgetLoading, selectedMonth, selectedYear>>

\* The months offered by the month select that the model picks from.
BudgetMonths == {3, 4}

\* The month select: setSelectedMonth, and the effect that loads the
\* budgets of the month now selected.
Budget_selectMonth ==
    /\ ~budgetLoading
    /\ ~showModal
    /\ \E m \in BudgetMonths :
        /\ m # selectedMonth
        /\ selectedMonth' = m
        /\ loadBudgets(budgetsTable, m, selectedYear)
    /\ UNCHANGED <<today, pageLoads, authVars, flightVars, txPageVars, sessionVars, dueVars, reminderVars, storeVars, pageVars, budgetsTable,
                   selectedYear, showModal>>

\* The budgets table: CHECK (amount >= 0), CHECK (month 1..12),
\* CHECK (year >= 2000).
MinYear == 2000
BudgetRowAccepted(row) ==
    /\ row.amount >= 0
    /\ row.month >= 1 /\ row.month <= 12
    /\ row.year >= MinYear

Upsert_insert(table, row) == table \cup {row}

\* upsert with onConflict user_id,category_id,month,year: the row of the
\* same key is replaced, else the row is added.
Upsert(table, row) ==
    {b \in table : ~(b.user_id = row.user_id /\ b.category_id = row.category_id
                     /\ b.month = row.month /\ b.year = row.year)} \cup {row}

\* The amounts typed into the Set Budget form (a number input, step 0.01,
\* without a minimum).
BudgetFormAmounts == {-1, 0, 500}

\* Budget.handleSubmit: the upsert, and when the store accepts it the form
\* is closed and the budgets are loaded again.
Budget_handleSubmit ==
    /\ showModal
    /\ \E c \in CategoryIds, a \in BudgetFormAmounts :
        LET row == [user_id |-> user, category_id |-> c, amount |-> a,
                    month |-> selectedMonth, year |-> selectedYear]
        IN  IF BudgetRowAccepted(row)
            THEN /\ budgetsTable' = Upsert(budgetsTable, row)
                 /\ writeError' = FALSE
                 /\ showModal' = FALSE
                 /\ loadBudgets(budgetsTable', selectedMonth, selectedYear)
            ELSE /\ writeError' = TRUE
                 /\ UNCHANGED <<budgetsTable, showModal, budgets, budgetLoading>>
    /\ UNCHANGED <<today, pageLoads, authVars, flightVars, txPageVars, user, categories, dueVars, reminderVars, storeVars, pageVars, selectedMonth, selectedYear>>

getProgressColor_strict(percentage) ==
    IF jsAtLeast(percentage, 100) THEN "bg-red-600"
    ELSE IF jsGreater(percentage, 80) THEN "bg-amber-600"
    ELSE "bg-green-600"

\* getProgressColor(percentage)
getProgressColor(percentage) ==
    IF jsAtLeast(percentage, 100) THEN "bg-red-600"
    ELSE IF jsAtLeast(percentage, 80) THEN "bg-amber-600"
    ELSE "bg-green-600"

\* getProgressBarColor(percentage)
getProgressBarColor(percentage) ==
    IF jsAtLeast(percentage, 100) THEN "bg-red-100"
    ELSE IF jsAtLeast(percentage, 80) THEN "bg-amber-100"
    ELSE "bg-green-100"

\* The banner under a budget: none below 80, else the red or the amber one.
warningBanner(percentage) ==
    IF jsAtLeast(percentage, 80)
    THEN (IF jsAtLeast(percentage, 100) THEN "bg-red-50" ELSE "bg-amber-50")
    ELSE "none"

\* The two figures computed for each budget shown.
percentageOf(budget) == jsTimes(jsDivide(budget.spent, budget.amount), 100)

remainingOf_clamped(budget) ==
    IF budget.amount - budget.spent > 0 THEN budget.amount - budget.spent ELSE 0

remainingOf(budget) == budget.amount - budget.spent

RECURSIVE SumOver(_, _)
SumOver(S, field) ==
    IF S = {} THEN 0
    ELSE LET b == CHOOSE x \in S : TRUE
         IN  b[field] + SumOver(S \ {b}, field)

\* The summary card: totals over the budgets shown.
totalBudget == SumOver(budgets, "amount")
totalSpent == SumOver(budgets, "spent")
totalPercentage ==
    IF totalBudget > 0 THEN jsTimes(jsDivide(totalSpent, totalBudget), 100)
    ELSE [k |-> "fin", n |-> 0, d |-> 1]
totalRemaining == IF totalBudget - totalSpent > 0 THEN totalBudget - totalSpent ELSE 0

(***************************************************************************)
(* SpecBudget: the Budget page over a drawn set of transactions.           *)
(***************************************************************************)

\* The longest transactions table the model draws.
MaxTransactions == 2

TxAmounts == {50, 400, 450}

BudgetToday == [y |-> 2024, m |-> 3, d |-> 15]

\* Expenses of either category in the month shown, and one income.
BudgetTxRows ==
    [category_id : CategoryIds, amount : TxAmounts, type : {"expense"},
     date : {[y |-> 2024, m |-> 3, d |-> 10]}]
    \cup {[category_id |-> "c1", amount |-> 450, type |-> "income",
           date |-> [y |-> 2024, m |-> 3, d |-> 10]]}

BudgetTxTables == UNION {[1..n -> BudgetTxRows] : n \in 0..MaxTransactions}

InitBudget ==
    /\ today = BudgetToday
    /\ InitDueIdle
    /\ InitRemindersIdle
    /\ timezone = 0
    /\ transactions \in BudgetTxTables
    /\ InitBudgetIdle
    /\ InitPagesIdle
    /\ pageLoads = {}
    /\ InitAuthIdle
    /\ InitFlightIdle
    /\ InitTxPageIdle
    /\ InitSessionIdle

NextBudget ==
    \/ Budget_loadBudgets
    \/ Budget_openModal
    \/ Budget_closeModal
    \/ Budget_handleSubmit

SpecBudget == InitBudget /\ [][NextBudget]_vars

\* The status the claim gives a budget with a positive limit.
C5_Status(spent, limit) ==
    IF spent >= limit THEN "Exceeded"
    ELSE IF 5 * spent >= 4 * limit THEN "Warning"
    ELSE "OnTrack"

C6_PercentageAndRemaining ==
    \A b \in budgets :
        LET p == percentageOf(b)
            r == remainingOf(b)
        IN  /\ b.amount > 0 => (p.k = "fin" /\ p.n * b.amount = 100 * b.spent * p.d)
            /\ r + b.spent = b.amount
            /\ (r < 0) = (b.spent > b.amount)
            /\ (b.amount = 500 /\ b.spent = 450) =>
                   /\ p.n = 90 * p.d
                   /\ r = 50
                   /\ getProgressColor(p) = "bg-amber-600"

\* C6 witness: a budget of 500 with 850 spent is shown with a remaining of
\* -350.
C6_Witness ==
    \E b \in budgets :
        /\ b.amount = 500
        /\ b.spent = 850
        /\ remainingOf(b) = -350

\* C7: the Budget page never divides by a zero limit: the percentage of
\* every budget shown is a defined number, 0 when the limit is 0.
C7_ZeroLimitGuarded ==
    \A b \in budgets :
        /\ percentageOf(b).k = "fin"
        /\ b.amount = 0 => percentageOf(b) = [k |-> "fin", n |-> 0, d |-> 1]

(***************************************************************************)
(* Dashboard and Analytics: the aggregation of the current month.          *)
(***************************************************************************)

\* The categories the transactions of the model refer to; the join
\* categories (name, color) of a query reads the name from here.
CategoryName(c) ==
    CASE c = "c1" -> "Food"
      [] c = "c2" -> "Transport"
      [] OTHER -> "Salary"

\* The rows .gte('date', firstDay).lte('date', lastDay) keeps, the bounds
\* being those of the month of `now`.
currentMonthRows(txTable, now, tz) ==
    LET firstDay == toISODate(NewDate(getFullYear(now), getMonth(now), 1), tz)
        lastDay == toISODate(NewDate(getFullYear(now), getMonth(now) + 1, 0), tz)
    IN  SelectSeq(txTable, LAMBDA t : DateLE(firstDay, t.date) /\ DateLE(t.date, lastDay))

RECURSIVE InsertByDateDesc(_, _)
InsertByDateDesc(row, sorted) ==
    IF sorted = <<>> THEN <<row>>
    ELSE IF DateLE(Head(sorted).date, row.date)
         THEN <<row>> \o sorted
         ELSE <<Head(sorted)>> \o InsertByDateDesc(row, Tail(sorted))

\* .order('date', { ascending: false })
RECURSIVE OrderByDateDesc(_)
OrderByDateDesc(rows) ==
    IF rows = <<>> THEN <<>>
    ELSE InsertByDateDesc(Head(rows), OrderByDateDesc(Tail(rows)))

dashboardStats_allAsIncome(data) ==
    LET income == SumAmounts(data)
        expenses == SumAmounts(SelectSeq(data, LAMBDA t : t.type = "expense"))
    IN  [totalIncome |-> income, totalExpenses |-> expenses,
         totalSavings |-> income - expenses]

\* The totals Dashboard.loadData computes from the rows it fetched.
dashboardStats(data) ==
    LET income == SumAmounts(SelectSeq(data, LAMBDA t : t.type = "income"))
        expenses == SumAmounts(SelectSeq(data, LAMBDA t : t.type = "expense"))
    IN  [totalIncome |-> income, totalExpenses |-> expenses,
         totalSavings |-> income - expenses]

\* recent: the first five rows, with the joined category name.
recentOf(data) ==
    [i \in 1..(IF Len(data) < 5 THEN Len(data) ELSE 5) |->
        [amount |-> data[i].amount, type |-> data[i].type, date |-> data[i].date,
         category_name |-> CategoryName(data[i].category_id)]]

\* Dashboard.loadData: with data the totals and the five latest rows are
\* set; the loading flag is cleared either way.
loadData ==
    /\ \E ok \in BOOLEAN :
        IF ok
        THEN \E data \in {OrderByDateDesc(currentMonthRows(transactions, today, timezone))} :
                 /\ stats' = dashboardStats(data)
                 /\ recentTransactions' = recentOf(data)
        ELSE UNCHANGED <<stats, recentTransactions>>
    /\ dashboardLoading' = FALSE

Dashboard_loadData ==
    /\ loadData
    /\ UNCHANGED <<today, pageLoads, authVars, flightVars, txPageVars, sessionVars, dueVars, reminderVars, storeVars, budgetVars,
                   categoryExpenses, monthlyData, analyticsLoading>>

RECURSIVE expensesByCategory_anyType(_)
expensesByCategory_anyType(data) ==
    IF data = <<>> THEN <<>>
    ELSE LET before == expensesByCategory_anyType(SubSeq(data, 1, Len(data) - 1))
             t == data[Len(data)]
             name == CategoryName(t.category_id)
         IN  IF \E i \in 1..Len(before) : before[i].name = name
             THEN [i \in 1..Len(before) |->
                      IF before[i].name = name
                      THEN [before[i] EXCEPT !.amount = @ + t.amount]
                      ELSE before[i]]
             ELSE Append(before, [name |-> name, amount |-> t.amount])

\* The loop over the fetched rows: expensesByCategory as the list of its
\* entries in the order the names were first met.
RECURSIVE expensesByCategory(_)
expensesByCategory(data) ==
    IF data = <<>> THEN <<>>
    ELSE LET before == expensesByCategory(SubSeq(data, 1, Len(data) - 1))
             t == data[Len(data)]
             name == CategoryName(t.category_id)
         IN  IF t.type # "expense" THEN before
             ELSE IF \E i \in 1..Len(before) : before[i].name = name
                  THEN [i \in 1..Len(before) |->
                           IF before[i].name = name
                           THEN [before[i] EXCEPT !.amount = @ + t.amount]
                           ELSE before[i]]
                  ELSE Append(before, [name |-> name, amount |-> t.amount])

RECURSIVE InsertByAmountDesc_beforeEqual(_, _)
InsertByAmountDesc_beforeEqual(row, sorted) ==
    IF sorted = <<>> THEN <<row>>
    ELSE IF Head(sorted).amount <= row.amount
         THEN <<row>> \o sorted
         ELSE <<Head(sorted)>> \o InsertByAmountDesc_beforeEqual(row, Tail(sorted))

RECURSIVE InsertByAmountDesc(_, _)
InsertByAmountDesc(row, sorted) ==
    IF sorted = <<>> THEN <<row>>
    ELSE IF Head(sorted).amount < row.amount
         THEN <<row>> \o sorted
         ELSE <<Head(sorted)>> \o InsertByAmountDesc(row, Tail(sorted))

\* .sort((a, b) => b.amount - a.amount): descending, equal amounts kept in
\* their order.
RECURSIVE SortByAmountDesc(_)
SortByAmountDesc(rows) ==
    IF rows = <<>> THEN <<>>
    ELSE InsertByAmountDesc(rows[Len(rows)], SortByAmountDesc(SubSeq(rows, 1, Len(rows) - 1)))

\* The category breakdown Analytics.loadAnalytics computes from the rows it
\* fetched.
categoryData(data) ==
    LET entries == expensesByCategory(data)
        totalExpense == SumAmounts(SelectSeq(data, LAMBDA t : t.type = "expense"))
    IN  SortByAmountDesc(
            [i \in 1..Len(entries) |->
                [name |-> entries[i].name, amount |-> entries[i].amount,
                 percentage |-> jsTimes(jsDivide(entries[i].amount, totalExpense), 100)]])

MonthNames ==
    <<"Jan", "Feb", "Mar", "Apr", "May", "Jun", "Jul", "Aug", "Sep", "Oct", "Nov", "Dec">>

\* The month the loop of the series visits at i (5 down to 0), as the local
\* date of its first day.
targetDate(now, i) == NewDate(getFullYear(now), (getMonth(now) + 1) - 1 - i, 1)

\* The rows between two ISO dates, both included.
rowsBetween(txTable, first, last) ==
    SelectSeq(txTable, LAMBDA t : DateLE(first, t.date) /\ DateLE(t.date, last))

\* The rows .gte('date', monthFirst).lte('date', monthLast) keeps.  (The
\* bounds are bound to values once, not recomputed for every row.)
monthRows(txTable, targetYear, targetMonth, tz) ==
    CHOOSE rows \in
        {rowsBetween(txTable, monthFirst, monthLast) :
            monthFirst \in {toISODate(NewDate(targetYear, targetMonth - 1, 1), tz)},
            monthLast \in {toISODate(NewDate(targetYear, targetMonth, 0), tz)}} : TRUE

\* The entry pushed for one month: rows of type income add to income, all
\* others to expense; without data both stay 0 (data is then <<>> here).
monthlyEntry(data, targetMonth) ==
    LET income == SumAmounts(SelectSeq(data, LAMBDA t : t.type = "income"))
        expense == SumAmounts(SelectSeq(data, LAMBDA t : t.type # "income"))
    IN  [month |-> MonthNames[targetMonth], income |-> income, expense |-> expense,
         savings |-> income - expense]

\* What iteration i of the loop can push: the entry of the rows the store
\* answers with, or the entry of a fetch that came back without data.
monthlyOutcomes(txTable, now, tz, i) ==
    UNION {{monthlyEntry(monthRows(txTable, getFullYear(target), getMonth(target) + 1, tz),
                         getMonth(target) + 1),
            monthlyEntry(<<>>, getMonth(target) + 1)} : target \in {targetDate(now, i)}}

\* Analytics.loadAnalytics: the category breakdown is set when the month's
\* rows arrive and left as it was when the fetch fails; then the six
\* months are fetched one after the other, oldest first, each fetch
\* answered or not, and the series and the loading flag are set.
loadAnalytics ==
    /\ \E o \in {<<monthlyOutcomes(transactions, today, timezone, 5),
                   monthlyOutcomes(transactions, today, timezone, 4),
                   monthlyOutcomes(transactions, today, timezone, 3),
                   monthlyOutcomes(transactions, today, timezone, 2),
                   monthlyOutcomes(transactions, today, timezone, 1),
                   monthlyOutcomes(transactions, today, timezone, 0)>>} :
       \E ok \in BOOLEAN :
          /\ IF ok
             THEN \E data \in {currentMonthRows(transactions, today, timezone)} :
                      categoryExpenses' = categoryData(data)
             ELSE UNCHANGED categoryExpenses
          /\ \E e5 \in o[1], e4 \in o[2], e3 \in o[3], e2 \in o[4], e1 \in o[5], e0 \in o[6] :
                 monthlyData' = <<e5, e4, e3, e2, e1, e0>>
    /\ analyticsLoading' = FALSE

Analytics_loadAnalytics ==
    /\ loadAnalytics
    /\ UNCHANGED <<today, pageLoads, authVars, flightVars, txPageVars, sessionVars, dueVars, reminderVars, storeVars, budgetVars,
                   stats, recentTransactions, dashboardLoading>>

(***************************************************************************)
(* SpecAggregate: the two pages over a drawn list of records.              *)
(***************************************************************************)

\* The longest list of records the model draws.
MaxRecords == 3

AggregateToday == [y |-> 2024, m |-> 3, d |-> 15]

\* Expenses of two categories, one of amount 0, an income, and one expense
\* of the month before.
AggregateRows ==
    [category_id : {"c1"}, amount : {0, 200, 300}, type : {"expense"},
     date : {[y |-> 2024, m |-> 3, d |-> 5]}]
    \cup {[category_id |-> "c2", amount |-> 200, type |-> "expense",
           date |-> [y |-> 2024, m |-> 3, d |-> 5]],
          [category_id |-> "c3", amount |-> 1000, type |-> "income",
           date |-> [y |-> 2024, m |-> 3, d |-> 1]],
          [category_id |-> "c1", amount |-> 300, type |-> "expense",
           date |-> [y |-> 2024, m |-> 2, d |-> 10]]}

AggregateTables == UNION {[1..n -> AggregateRows] : n \in 0..MaxRecords}

InitAggregate ==
    /\ today = AggregateToday
    /\ InitDueIdle
    /\ InitRemindersIdle
    /\ timezone = 0
    /\ transactions \in AggregateTables
    /\ InitBudgetIdle
    /\ InitPagesIdle
    /\ pageLoads = {}
    /\ InitAuthIdle
    /\ InitFlightIdle
    /\ InitTxPageIdle
    /\ InitSessionIdle

NextAggregate == Dashboard_loadData \/ Analytics_loadAnalytics

SpecAggregate == InitAggregate /\ [][NextAggregate]_vars

\* The records of the period: those dated in the month of today.
PeriodRecords ==
    {i \in 1..Len(transactions) :
        transactions[i].date.y = today.y /\ transactions[i].date.m = today.m}

RECURSIVE SumOfRecords(_)
SumOfRecords(I) ==
    IF I = {} THEN 0
    ELSE LET i == CHOOSE j \in I : TRUE
         IN  transactions[i].amount + SumOfRecords(I \ {i})

\* The Dashboard shows the result of a fetch that returned the records.
DashboardShowsData ==
    /\ ~dashboardLoading
    /\ Len(recentTransactions) =
           (IF Cardinality(PeriodRecords) < 5 THEN Cardinality(PeriodRecords) ELSE 5)

\* C8: totalIncome is the sum of the income records' amounts, totalExpenses
\* the sum of the expense records' amounts, netSavings their difference;
\* every record of the period is counted in exactly one of the two totals.
C8_Totals ==
    DashboardShowsData =>
        /\ stats.totalIncome =
               SumOfRecords({i \in PeriodRecords : transactions[i].type = "income"})
        /\ stats.totalExpenses =
               SumOfRecords({i \in PeriodRecords : transactions[i].type = "expense"})
        /\ stats.totalSavings = stats.totalIncome - stats.totalExpenses
        /\ stats.totalIncome + stats.totalExpenses = SumOfRecords(PeriodRecords)

\* C8 witness: an income of 1000 and expenses of 300 and 200 give totals
\* of 1000 and 500 and savings of 500.
C8_Witness ==
    /\ DashboardShowsData
    /\ Cardinality(PeriodRecords) = 3
    /\ stats = [totalIncome |-> 1000, totalExpenses |-> 500, totalSavings |-> 500]

\* The month's expense total, from the records.
C9_TotalExpenses ==
    SumOfRecords({i \in PeriodRecords : transactions[i].type = "expense"})

\* C9: each entry's percentage is amount / totalExpenses * 100 when
\* totalExpenses > 0 and 0 when totalExpenses = 0, expense records of
\* amount 0 included; no NaN is produced.
C9_PercentageDefined ==
    \A i \in 1..Len(categoryExpenses) :
        LET e == categoryExpenses[i]
        IN  /\ e.percentage.k = "fin"
            /\ C9_TotalExpenses > 0 =>
                   e.percentage.n * C9_TotalExpenses = 100 * e.amount * e.percentage.d
            /\ C9_TotalExpenses = 0 => e.percentage.n = 0

\* x + y on the numbers of the model.
C10_Plus(x, y) ==
    IF x.k = "nan" \/ y.k = "nan" THEN NaN
    ELSE IF x.k = "inf" \/ y.k = "inf" THEN Infinity
    ELSE [k |-> "fin", n |-> x.n * y.d + y.n * x.d, d |-> x.d * y.d]

RECURSIVE C10_SumOfPercentages(_)
C10_SumOfPercentages(entries) ==
    IF entries = <<>> THEN [k |-> "fin", n |-> 0, d |-> 1]
    ELSE C10_Plus(Head(entries).percentage, C10_SumOfPercentages(Tail(entries)))

\* C10: the percentages of the breakdown sum to 100 when totalExpenses > 0
\* and to 0 when totalExpenses = 0.
C10_PercentagesSum ==
    (analyticsLoading = FALSE /\ (C9_TotalExpenses > 0 => categoryExpenses # <<>>)) =>
        LET total == C10_SumOfPercentages(categoryExpenses)
        IN  /\ total.k = "fin"
            /\ total.n = (IF C9_TotalExpenses > 0 THEN 100 ELSE 0) * total.d

\* The expense records of the period, and the category names on them.
C11_ExpenseRecords == {i \in PeriodRecords : transactions[i].type = "expense"}

C11_ExpenseNames == {CategoryName(transactions[i].category_id) : i \in C11_ExpenseRecords}

\* C11: the breakdown holds exactly one entry per category name found on an
\* expense record of the period, its amount the sum of those records'
\* amounts; income records add no entry and no amount.  Income 1000,
\* Food 300 and Transport 200 give Food 300 (60 per cent) and Transport 200
\* (40 per cent), 500 in all.
C11_OneEntryPerCategory ==
    categoryExpenses # <<>> =>
        /\ {categoryExpenses[i].name : i \in 1..Len(categoryExpenses)} = C11_ExpenseNames
        /\ Len(categoryExpenses) = Cardinality(C11_ExpenseNames)
        /\ \A i \in 1..Len(categoryExpenses) :
               categoryExpenses[i].amount =
                   SumOfRecords({j \in C11_ExpenseRecords :
                       CategoryName(transactions[j].category_id) = categoryExpenses[i].name})
        /\ (/\ Len(transactions) = 3
            /\ {[name |-> CategoryName(transactions[i].category_id),
                 amount |-> transactions[i].amount, type |-> transactions[i].type] :
                    i \in PeriodRecords}
                 = {[name |-> "Salary", amount |-> 1000, type |-> "income"],
                    [name |-> "Food", amount |-> 300, type |-> "expense"],
                    [name |-> "Transport", amount |-> 200, type |-> "expense"]})
               => /\ Len(categoryExpenses) = 2
                  /\ categoryExpenses[1].name = "Food" /\ categoryExpenses[1].amount = 300
                  /\ categoryExpenses[1].percentage.n = 60 * categoryExpenses[1].percentage.d
                  /\ categoryExpenses[2].name = "Transport" /\ categoryExpenses[2].amount = 200
                  /\ categoryExpenses[2].percentage.n = 40 * categoryExpenses[2].percentage.d

\* C11 witness: the three records of the example, shown as Food 300 and
\* Transport 200.
C11_Witness ==
    /\ Len(transactions) = 3
    /\ transactions[1].type = "income" /\ transactions[1].amount = 1000
    /\ Len(categoryExpenses) = 2
    /\ categoryExpenses[1].name = "Food" /\ categoryExpenses[1].amount = 300
    /\ categoryExpenses[2].name = "Transport" /\ categoryExpenses[2].amount = 200

\* The place in the record list where a category name is first met on an
\* expense record of the period.
C12_FirstMet(name) ==
    CHOOSE i \in C11_ExpenseRecords :
        /\ CategoryName(transactions[i].category_id) = name
        /\ \A j \in C11_ExpenseRecords :
               CategoryName(transactions[j].category_id) = name => i <= j

\* C12: the breakdown is in descending order of amount, and two categories
\* of equal amount stand in the order in which they were first met in the
\* record list.
C12_SortedStable ==
    \A i, j \in 1..Len(categoryExpenses) : i < j =>
        /\ categoryExpenses[i].amount >= categoryExpenses[j].amount
        /\ categoryExpenses[i].amount = categoryExpenses[j].amount =>
               C12_FirstMet(categoryExpenses[i].name) < C12_FirstMet(categoryExpenses[j].name)

\* C12 witness: Transport met before Food, both of 200, shown in that order.
C12_Witness ==
    /\ Len(categoryExpenses) = 2
    /\ categoryExpenses[1].name = "Transport" /\ categoryExpenses[2].name = "Food"
    /\ categoryExpenses[1].amount = 200 /\ categoryExpenses[2].amount = 200

(***************************************************************************)
(* SpecPeriod: the three pages that select a month's records, over clocks  *)
(* at month ends, clients west and east of UTC, and records dated on the   *)
(* first and last days of months.                                          *)
(***************************************************************************)

\* The longest transactions table SpecPeriod draws.
MaxPeriodRecords == 2

\* Hours from UTC: New York (winter), UTC, and Cairo.
TimeZones == {-5, 0, 2}

\* January (the series rolls back into the year before), the month after a
\* leap February, and a 30-day month.
PeriodAnchors ==
    { [y |-> 2024, m |-> 1, d |-> 31], [y |-> 2024, m |-> 3, d |-> 31],
      [y |-> 2023, m |-> 6, d |-> 15] }

\* The calendar month k months after month m of year y (k may be negative).
MonthPlus(y, m, k) ==
    LET index == 12 * y + (m - 1) + k
    IN  [y |-> index \div 12, m |-> (index % 12) + 1]

FirstOf(ym) == [y |-> ym.y, m |-> ym.m, d |-> 1]

LastOf(ym) == [y |-> ym.y, m |-> ym.m, d |-> MonthLength(ym.y, ym.m)]

\* Expenses on the days around the month of now and around the start of
\* its six-month window, an income on the first of the month and an
\* expense of another category on its last day.
PeriodRows(now) ==
    [category_id : {"c1"}, amount : {100}, type : {"expense"},
     date : { FirstOf(MonthPlus(now.y, now.m, 0)), LastOf(MonthPlus(now.y, now.m, 0)),
              LastOf(MonthPlus(now.y, now.m, -1)), FirstOf(MonthPlus(now.y, now.m, 1)),
              FirstOf(MonthPlus(now.y, now.m, -5)), LastOf(MonthPlus(now.y, now.m, -6)) }]
    \cup {[category_id |-> "c3", amount |-> 1000, type |-> "income",
           date |-> FirstOf(MonthPlus(now.y, now.m, 0))],
          [category_id |-> "c2", amount |-> 250, type |-> "expense",
           date |-> LastOf(MonthPlus(now.y, now.m, 0))]}

PeriodTables(now) == UNION {[1..n -> PeriodRows(now)] : n \in 0..MaxPeriodRecords}

\* Budgets of 500 for both expense categories in the month of now.
PeriodBudgets(now) ==
    {[user_id |-> "u1", category_id |-> c, amount |-> 500, month |-> now.m, year |-> now.y] :
        c \in CategoryIds}

InitPeriod ==
    /\ today \in PeriodAnchors
    /\ InitDueIdle
    /\ InitRemindersIdle
    /\ timezone \in TimeZones
    /\ transactions \in PeriodTables(today)
    /\ budgetsTable = PeriodBudgets(today)
    /\ budgets = {}
    /\ budgetLoading = TRUE
    /\ selectedMonth = getMonth(today) + 1
    /\ selectedYear = getFullYear(today)
    /\ showModal = FALSE
    /\ InitPagesIdle
    /\ pageLoads = {}
    /\ InitAuthIdle
    /\ InitFlightIdle
    /\ InitTxPageIdle
    /\ InitSessionIdle

NextPeriod == Dashboard_loadData \/ Analytics_loadAnalytics \/ Budget_loadBudgets

SpecPeriod == InitPeriod /\ [][NextPeriod]_vars

\* The records dated in calendar month ym, all or of one type.
C13_RecordsOf(ym) ==
    {i \in 1..Len(transactions) :
        transactions[i].date.y = ym.y /\ transactions[i].date.m = ym.m}

C13_RecordsOfType(ym, type) == {i \in C13_RecordsOf(ym) : transactions[i].type = type}

\* C13: the series has six entries, one for each of the six calendar
\* months ending at the month of today, oldest first, running back into
\* the year before where needed; each entry's income and expense are the
\* sums of that month's records of each kind (both 0 where the month's
\* fetch brought no data) and its savings is income - expense.
C13_MonthlySeries ==
    monthlyData # <<>> =>
        /\ Len(monthlyData) = 6
        /\ \A k \in 1..6 :
               LET ym == MonthPlus(today.y, today.m, k - 6)
                   e == monthlyData[k]
               IN  /\ e.month = MonthNames[ym.m]
                   /\ e.savings = e.income - e.expense
                   /\ \/ e.income = 0 /\ e.expense = 0
                      \/ /\ e.income = SumOfRecords(C13_RecordsOfType(ym, "income"))
                         /\ e.expense = SumOfRecords(C13_RecordsOfType(ym, "expense"))

\* The month a page selects for: the month of today, or on the Budget
\* page the month and year selected.
C14_ThisMonth == [y |-> today.y, m |-> today.m]

C14_SelectedMonth == [y |-> selectedYear, m |-> selectedMonth]

\* What the budgets shown should have spent in all: the expenses of the
\* selected month in their categories.
C14_ExpectedSpent ==
    SumOfRecords({i \in C13_RecordsOfType(C14_SelectedMonth, "expense") :
        \E b \in budgets : b.category_id = transactions[i].category_id})

\* C14: for every month and every client time zone the range that selects
\* a month's records runs from the first to the last day of that month,
\* both included, and takes in no record of the month before or after: the
\* Dashboard lists only and all records of the month, the Analytics
\* breakdown adds up to the month's expenses, and the Budget page's spent
\* total is that of the month selected (or 0 when the transactions did not
\* arrive).
C14_MonthRange ==
    /\ recentTransactions # <<>> =>
           /\ \A i \in 1..Len(recentTransactions) :
                  /\ recentTransactions[i].date.y = today.y
                  /\ recentTransactions[i].date.m = today.m
           /\ Len(recentTransactions) =
                  (IF Cardinality(C13_RecordsOf(C14_ThisMonth)) < 5
                   THEN Cardinality(C13_RecordsOf(C14_ThisMonth)) ELSE 5)
    /\ categoryExpenses # <<>> =>
           SumAmounts(categoryExpenses) =
               SumOfRecords(C13_RecordsOfType(C14_ThisMonth, "expense"))
    /\ totalSpent \in {0, C14_ExpectedSpent}

\* What budget b should show as spent: the sum of the expense
\* transactions of its category dated in its month.
C15_Spent(b) ==
    SumOfRecords({i \in C13_RecordsOfType([y |-> b.year, m |-> b.month], "expense") :
        transactions[i].category_id = b.category_id})

\* C15: the spent figure of every budget shown is the sum of the amounts
\* of the expense transactions of its category dated in the month
\* selected (0 when there is none, or when the transactions did not
\* arrive); incomes, other categories and other months add nothing.
C15_SpentOfBudget ==
    \A b \in budgets :
        /\ b.month = selectedMonth /\ b.year = selectedYear
        /\ b.spent \in {0, C15_Spent(b)}

(***************************************************************************)
(* SpecUpsert: Set Budget submissions over two months, starting from an    *)
(* empty budgets table.                                                    *)
(***************************************************************************)

InitUpsert ==
    /\ today = BudgetToday
    /\ InitDueIdle
    /\ InitRemindersIdle
    /\ InitStoreIdle
    /\ InitBudgetIdle
    /\ InitPagesIdle
    /\ pageLoads = {}
    /\ InitAuthIdle
    /\ InitFlightIdle
    /\ InitTxPageIdle
    /\ InitSessionIdle

NextUpsert ==
    \/ Budget_loadBudgets
    \/ Budget_selectMonth
    \/ Budget_openModal
    \/ Budget_closeModal
    \/ Budget_handleSubmit

SpecUpsert == InitUpsert /\ [][NextUpsert]_vars

\* Two budgets of the single user have the same key.
C16_SameKey(a, b) ==
    /\ a.user_id = b.user_id /\ a.category_id = b.category_id
    /\ a.month = b.month /\ a.year = b.year

\* C16: whatever is submitted, the store holds at most one budget for a
\* (category, month, year) of the user; a submission the store takes leaves
\* exactly one row for its key, with the amount submitted, whether or not
\* the key was there before, and the rows of all other keys stay as they
\* were.
C16_OneBudgetPerKey ==
    [][ /\ \A a, b \in budgetsTable' : C16_SameKey(a, b) => a = b
        /\ budgetsTable' # budgetsTable =>
               \E row \in budgetsTable' \ budgetsTable :
                   /\ row.month = selectedMonth /\ row.year = selectedYear
                   /\ row.amount \in BudgetFormAmounts
                   /\ \A b \in budgetsTable : C16_SameKey(b, row) <=> b \notin budgetsTable'
                   /\ \A b \in budgetsTable' : b # row => b \in budgetsTable ]_vars

\* C16 witness: the page still lists the budget of 500 it loaded for a
\* category whose only row in the store now holds 0: the second
\* submission replaced the amount.
C16_Witness ==
    /\ \E shown \in budgets :
           /\ shown.amount = 500
           /\ \E b \in budgetsTable : C16_SameKey(b, shown) /\ b.amount = 0
    /\ \E a, b \in budgetsTable : a.month # b.month

(***************************************************************************)
(* The store: the tables of the migration with their CHECK constraints,    *)
(* their foreign keys to categories and their row-level security policies. *)
(* A request is sent with the signed-in user's token, so auth.uid() is     *)
(* user.  A row of transactions and bill_reminders carries its id and its  *)
(* owner; ids are handed out as the smallest number not in use.            *)
(***************************************************************************)

MaxStoreRows == 1

\* category_id of a reminder without a category.
NULL == "null"

RlsOwns_any(row, uid) == TRUE

\* The USING and WITH CHECK expression of the policies for INSERT, UPDATE
\* and DELETE: auth.uid() = user_id.
RlsOwns(row, uid) == row.user_id = uid

\* What a SELECT returns to uid: FOR SELECT ... USING (auth.uid() = user_id).
Visible(rows, uid) == {r \in rows : r.user_id = uid}

RowsOf(table) == {table[i] : i \in 1..Len(table)}

\* REFERENCES categories(id).
ReferencesCategory(cats, id) == \E c \in cats : c.id = id

\* categories: CHECK (type IN ('income', 'expense')).
CategoryCheck(row) == row.type \in {"income", "expense"}

TransactionCheck_anyAmount(row) == row.type \in {"income", "expense"}

\* transactions: CHECK (amount >= 0), CHECK (type IN ('income', 'expense')).
TransactionCheck(row) ==
    /\ row.amount >= 0
    /\ row.type \in {"income", "expense"}

\* bill_reminders: CHECK (amount >= 0), CHECK (due_date >= 1 AND due_date <= 31).
ReminderCheck(row) ==
    /\ row.amount >= 0
    /\ row.due_date >= MinDueDay /\ row.due_date <= MaxDueDay

\* gen_random_uuid(): an id no row of the table has.
FreshId(table) ==
    CHOOSE i \in 1..(Len(table) + 1) :
        /\ \A k \in 1..Len(table) : table[k].id # i
        /\ \A j \in 1..(i - 1) : \E k \in 1..Len(table) : table[k].id = j

\* The categories a form offers: the signed-in user's own.
OwnCategoryIds == {c.id : c \in Visible(categories, user)}

\* The values requests are sent with: valid ones and ones a CHECK refuses.
StoreAmounts == {-1, 50}
StoreTypes == {"expense", "transfer"}
StoreDueDays == {0, 15, 32}
StoreMonths == {0, 3, 13}
StoreYears == {1999, 2024}
NewCategoryId == "c3"

\* INSERT INTO categories.
Store_insertCategory ==
    /\ ~ReferencesCategory(categories, NewCategoryId)
    /\ \E owner \in Users, ty \in {"income", "transfer"} :
        LET row == [id |-> NewCategoryId, user_id |-> owner, name |-> "Salary", type |-> ty]
        IN  IF RlsOwns(row, user) /\ CategoryCheck(row)
            THEN categories' = categories \cup {row} /\ writeError' = FALSE
            ELSE UNCHANGED categories /\ writeError' = TRUE
    /\ UNCHANGED <<today, pageLoads, authVars, flightVars, txPageVars, user, dueVars, reminderVars, storeVars, budgetVars, pageVars>>

\* INSERT INTO transactions.
Store_insertTransaction ==
    /\ Len(transactions) < MaxStoreRows
    /\ \E owner \in Users, c \in OwnCategoryIds \cup {NoCategory},
          a \in StoreAmounts, ty \in StoreTypes :
        LET row == [id |-> FreshId(transactions), user_id |-> owner, category_id |-> c,
                    amount |-> a, type |-> ty, date |-> [y |-> 2024, m |-> 3, d |-> 5]]
        IN  IF /\ RlsOwns(row, user)
               /\ TransactionCheck(row)
               /\ ReferencesCategory(categories, row.category_id)
            THEN transactions' = Append(transactions, row) /\ writeError' = FALSE
            ELSE UNCHANGED transactions /\ writeError' = TRUE
    /\ UNCHANGED <<today, pageLoads, authVars, flightVars, txPageVars, user, categories, dueVars, reminderVars, timezone, budgetVars,
                   pageVars>>

\* DELETE FROM transactions WHERE id = ...: a row the policy hides is not
\* deleted, and the response carries no error.
Store_deleteTransaction ==
    /\ \E id \in {t.id : t \in RowsOf(transactions)} :
        transactions' = SelectSeq(transactions,
                                  LAMBDA t : ~(t.id = id /\ RlsOwns(t, user)))
    /\ writeError' = FALSE
    /\ UNCHANGED <<today, pageLoads, authVars, flightVars, txPageVars, user, categories, dueVars, reminderVars, timezone, budgetVars,
                   pageVars>>

\* INSERT INTO bill_reminders.
Store_insertReminder ==
    /\ Len(bill_reminders) < MaxStoreRows
    /\ \E owner \in Users, c \in OwnCategoryIds \cup {NULL},
          a \in StoreAmounts, due \in StoreDueDays :
        LET row == [id |-> FreshId(bill_reminders), user_id |-> owner, category_id |-> c,
                    amount |-> a, due_date |-> due, is_active |-> TRUE]
        IN  IF /\ RlsOwns(row, user)
               /\ ReminderCheck(row)
               /\ (row.category_id = NULL \/ ReferencesCategory(categories, row.category_id))
            THEN bill_reminders' = Append(bill_reminders, row) /\ writeError' = FALSE
            ELSE UNCHANGED bill_reminders /\ writeError' = TRUE
    /\ UNCHANGED <<today, pageLoads, authVars, flightVars, txPageVars, user, categories, dueVars, notifications, headerData, reminders,
                   remindersLoading, storeVars, budgetVars, pageVars>>

\* UPDATE bill_reminders SET is_active = ... WHERE id = ...
Store_updateReminder ==
    /\ \E id \in {r.id : r \in RowsOf(bill_reminders)}, currentStatus \in BOOLEAN :
        bill_reminders' =
            [i \in 1..Len(bill_reminders) |->
                IF bill_reminders[i].id = id /\ RlsOwns(bill_reminders[i], user)
                THEN [bill_reminders[i] EXCEPT !.is_active = ~currentStatus]
                ELSE bill_reminders[i]]
    /\ writeError' = FALSE
    /\ UNCHANGED <<today, pageLoads, authVars, flightVars, txPageVars, user, categories, dueVars, notifications, headerData, reminders,
                   remindersLoading, storeVars, budgetVars, pageVars>>

\* DELETE FROM bill_reminders WHERE id = ...
Store_deleteReminder ==
    /\ \E id \in {r.id : r \in RowsOf(bill_reminders)} :
        bill_reminders' = SelectSeq(bill_reminders,
                                    LAMBDA r : ~(r.id = id /\ RlsOwns(r, user)))
    /\ writeError' = FALSE
    /\ UNCHANGED <<today, pageLoads, authVars, flightVars, txPageVars, user, categories, dueVars, notifications, headerData, reminders,
                   remindersLoading, storeVars, budgetVars, pageVars>>

\* The upsert of a budgets row.
Store_upsertBudget ==
    /\ \E owner \in Users, c \in OwnCategoryIds, a \in StoreAmounts,
          m \in StoreMonths, y \in StoreYears :
        LET row == [user_id |-> owner, category_id |-> c, amount |-> a,
                    month |-> m, year |-> y]
        IN  IF /\ RlsOwns(row, user)
               /\ BudgetRowAccepted(row)
               /\ ReferencesCategory(categories, row.category_id)
            THEN budgetsTable' = Upsert(budgetsTable, row) /\ writeError' = FALSE
            ELSE UNCHANGED budgetsTable /\ writeError' = TRUE
    /\ UNCHANGED <<today, pageLoads, authVars, flightVars, txPageVars, user, categories, dueVars, reminderVars, storeVars, budgets,
                   budgetLoading, selectedMonth, selectedYear, showModal, pageVars>>

DeleteRestricted_never(id) == FALSE

\* transactions.category_id ... ON DELETE RESTRICT.
DeleteRestricted(id) == \E t \in RowsOf(transactions) : t.category_id = id

\* bill_reminders.category_id ... ON DELETE SET NULL.
SetNull(table, id) ==
    [i \in 1..Len(table) |->
        IF table[i].category_id = id THEN [table[i] EXCEPT !.category_id = NULL]
        ELSE table[i]]

\* budgets.category_id ... ON DELETE CASCADE.
Cascade(table, id) == {b \in table : b.category_id # id}

\* DELETE FROM categories WHERE id = ...
Store_deleteCategory ==
    /\ \E id \in {c.id : c \in categories} :
        IF \E c \in categories : c.id = id /\ RlsOwns(c, user)
        THEN IF DeleteRestricted(id)
             THEN /\ writeError' = TRUE
                  /\ UNCHANGED <<categories, bill_reminders, budgetsTable>>
             ELSE /\ categories' = {c \in categories : c.id # id}
                  /\ bill_reminders' = SetNull(bill_reminders, id)
                  /\ budgetsTable' = Cascade(budgetsTable, id)
                  /\ writeError' = FALSE
        ELSE /\ writeError' = FALSE
             /\ UNCHANGED <<categories, bill_reminders, budgetsTable>>
    /\ UNCHANGED <<today, pageLoads, authVars, flightVars, txPageVars, user, dueVars, notifications, headerData, reminders,
                   remindersLoading, storeVars, budgets, budgetLoading, selectedMonth,
                   selectedYear, showModal, pageVars>>

\* signIn: the session changes to the other account.
Auth_signIn ==
    /\ \E u \in Users \ {user} : user' = u
    /\ UNCHANGED <<today, pageLoads, authVars, flightVars, txPageVars, categories, writeError, dueVars, reminderVars, storeVars,
                   budgetVars, pageVars>>

\* Every account starts with a category of its own.
StoreCategories ==
    {[id |-> "c1", user_id |-> "u1", name |-> "Food", type |-> "expense"],
     [id |-> "c2", user_id |-> "u2", name |-> "Food", type |-> "expense"]}

InitStore ==
    /\ today = BudgetToday
    /\ InitDueIdle
    /\ InitRemindersIdle
    /\ InitStoreIdle
    /\ InitBudgetIdle
    /\ InitPagesIdle
    /\ pageLoads = {}
    /\ InitAuthIdle
    /\ InitFlightIdle
    /\ InitTxPageIdle
    /\ user = "u1"
    /\ categories = StoreCategories
    /\ writeError = FALSE

NextStore ==
    \/ Store_insertCategory
    \/ Store_insertTransaction
    \/ Store_deleteTransaction
    \/ Store_insertReminder
    \/ Store_upsertBudget
    \/ Store_deleteCategory

SpecStore == InitStore /\ [][NextStore]_vars

\* The rows the store holds.
storeTables == <<categories, transactions, bill_reminders, budgetsTable>>

\* C17, state part: every row satisfies the CHECK constraints of its table.
C17_RowsValid ==
    /\ \A c \in categories : c.type \in {"income", "expense"}
    /\ \A t \in RowsOf(transactions) : t.amount >= 0 /\ t.type \in {"income", "expense"}
    /\ \A r \in RowsOf(bill_reminders) :
           r.amount >= 0 /\ r.due_date >= 1 /\ r.due_date <= 31
    /\ \A b \in budgetsTable :
           b.amount >= 0 /\ b.month >= 1 /\ b.month <= 12 /\ b.year >= 2000

\* C17: in every reachable state of the store all transaction, budget and
\* reminder amounts are non-negative, every transaction and category type is
\* income or expense, every reminder due day is in 1..31, every budget month
\* in 1..12 and every budget year at least 2000; a write the store rejects
\* leaves every table as it was.
C17_StoreChecks ==
    /\ []C17_RowsValid
    /\ [][writeError' => UNCHANGED storeTables]_vars

\* C17 witness: the last write was rejected while the store holds a
\* transaction, a reminder, a budget and a category added by a write.
C17_Witness ==
    /\ writeError
    /\ transactions # <<>>
    /\ bill_reminders # <<>>
    /\ budgetsTable # {}
    /\ ReferencesCategory(categories, NewCategoryId)

\* C18, state part: each transaction references an existing category and
\* each reminder references an existing category or none.
C18_RefsValid ==
    /\ \A t \in RowsOf(transactions) : \E c \in categories : c.id = t.category_id
    /\ \A r \in RowsOf(bill_reminders) :
           r.category_id = NULL \/ \E c \in categories : c.id = r.category_id

\* C18: a category referenced by a transaction is never deleted; when a
\* category is deleted the reminders that referenced it are kept with their
\* category reference set to null and the other reminders are as before;
\* hence every reference of a transaction or a reminder is to an existing
\* category (or, for a reminder, to none).
C18_CategoryDelete ==
    /\ []C18_RefsValid
    /\ [][\A c \in categories :
            IF \E t \in RowsOf(transactions) : t.category_id = c.id
            THEN c \in categories'
            ELSE c \notin categories' =>
                 /\ Len(bill_reminders') = Len(bill_reminders)
                 /\ \A i \in 1..Len(bill_reminders) :
                        bill_reminders'[i] =
                            IF bill_reminders[i].category_id = c.id
                            THEN [bill_reminders[i] EXCEPT !.category_id = NULL]
                            ELSE bill_reminders[i]]_vars

\* C18 witness: the first category has been deleted, a reminder without a
\* category is kept, and a transaction that references the other category
\* is in the store after a rejected request.
C18_Witness ==
    /\ ~ReferencesCategory(categories, "c1")
    /\ \E r \in RowsOf(bill_reminders) : r.category_id = NULL
    /\ \E t \in RowsOf(transactions) : t.category_id = NewCategoryId
    /\ writeError

(***************************************************************************)
(* Ownership: two accounts send requests to the store, each with the ids   *)
(* of any row, its own or not.                                             *)
(***************************************************************************)

InitOwner ==
    /\ today = BudgetToday
    /\ InitDueIdle
    /\ InitRemindersIdle
    /\ InitStoreIdle
    /\ InitBudgetIdle
    /\ InitPagesIdle
    /\ pageLoads = {}
    /\ InitAuthIdle
    /\ InitFlightIdle
    /\ InitTxPageIdle
    /\ user \in Users
    /\ categories = StoreCategories
    /\ writeError = FALSE

NextOwner ==
    \/ Auth_signIn
    \/ Store_insertTransaction
    \/ Store_deleteTransaction
    \/ Store_insertReminder
    \/ Store_updateReminder
    \/ Store_deleteReminder
    \/ Store_upsertBudget
    \/ Store_deleteCategory

SpecOwner == InitOwner /\ [][NextOwner]_vars

\* The rows of the four tables that uid does not own.
C19_RowsOfOthers(cats, txs, rems, buds, uid) ==
    <<{c \in cats : c.user_id # uid},
      SelectSeq(txs, LAMBDA t : t.user_id # uid),
      SelectSeq(rems, LAMBDA r : r.user_id # uid),
      {b \in buds : b.user_id # uid}>>

Profile_message(error) ==
    IF error THEN "Failed to update profile" ELSE "Profile updated successfully!"

\* Budget.handleSubmit: `if (!error) { ... }` without an else, and the page
\* has no message to show.
Budget_message(error) == ""

\* C20: whenever the store rejects the write of the Set Budget form a failure
\* message is shown, and the store and the list shown are as before the
\* submission.
C20_RejectionSurfaced ==
    /\ [](writeError => Budget_message(writeError) # "")
    /\ [][(~writeError /\ writeError') => UNCHANGED <<budgetsTable, budgets>>]_vars

(***************************************************************************)
(* The Transactions page: its categories, the Add Transaction form and the *)
(* list.  A text typed into the amount field is a sequence of characters.  *)
(***************************************************************************)

\* createDefaultCategories: the rows inserted, in the order of the array.
DefaultCategories ==
    << [name |-> "Salary", type |-> "income"],
       [name |-> "Freelance", type |-> "income"],
       [name |-> "Food", type |-> "expense"],
       [name |-> "Transport", type |-> "expense"],
       [name |-> "Shopping", type |-> "expense"],
       [name |-> "Entertainment", type |-> "expense"],
       [name |-> "Bills", type |-> "expense"],
       [name |-> "Health", type |-> "expense"] >>

\* .order('name') over the names there are.
NamesInOrder ==
    <<"Bills", "Entertainment", "Food", "Freelance", "Health", "Salary", "Shopping",
      "Transport">>

\* How many times the defaults are inserted for one user at most.
MaxDefaultSets == 3

\* The id the store gives the n-th row named name of a user.
CategoryId(uid, name, n) == name \o "#" \o uid \o "#" \o ToString(n)

\* How many sets of defaults uid has.
DefaultSets(cats, uid) ==
    Cardinality({n \in 1..MaxDefaultSets :
                    \E c \in cats : c.id = CategoryId(uid, "Salary", n)})

\* The rows of one insert of the defaults, as the insert returns them.
defaultRows(uid, n) ==
    [i \in 1..Len(DefaultCategories) |->
        [id |-> CategoryId(uid, DefaultCategories[i].name, n), user_id |-> uid,
         name |-> DefaultCategories[i].name, type |-> DefaultCategories[i].type]]

RECURSIVE Concat(_)
Concat(seqs) == IF seqs = <<>> THEN <<>> ELSE Head(seqs) \o Concat(Tail(seqs))

\* select('*').eq('user_id', user.id).order('name'): rows of the same name
\* come in the order of their insertion.
categoriesByName(cats, uid) ==
    Concat([k \in 1..Len(NamesInOrder) |->
              SelectSeq([n \in 1..MaxDefaultSets |->
                            [id |-> CategoryId(uid, NamesInOrder[k], n), user_id |-> uid,
                             name |-> NamesInOrder[k],
                             type |-> IF NamesInOrder[k] \in {"Salary", "Freelance"}
                                      THEN "income" ELSE "expense"]],
                        LAMBDA c : c \in cats)])

\* Transactions.loadCategories with createDefaultCategories, from the point
\* where the fetch is answered; category_id is the form's, '' at mount.
Transactions_loadCategories(category_id) ==
    \E ok \in BOOLEAN :
        IF ok
        THEN \E data \in {categoriesByName(categories, user)} :
                /\ txCategories' = data
                /\ txFormData' =
                       [amount |-> <<>>, type |-> "expense",
                        category_id |-> IF Len(data) > 0 /\ category_id = NoCategory
                                        THEN data[1].id ELSE category_id]
                /\ UNCHANGED categories
        ELSE \E inserted \in BOOLEAN :
                IF inserted /\ DefaultSets(categories, user) < MaxDefaultSets
                THEN \E data \in {defaultRows(user, DefaultSets(categories, user) + 1)} :
                        /\ categories' = categories \cup {data[i] : i \in 1..Len(data)}
                        /\ txCategories' = data
                        /\ txFormData' = [amount |-> <<>>, type |-> "expense",
                                          category_id |-> data[1].id]
                ELSE /\ txCategories' = <<>>
                     /\ txFormData' = [amount |-> <<>>, type |-> "expense",
                                       category_id |-> category_id]
                     /\ UNCHANGED categories

\* Transactions.loadTransactions, from the point where the fetch is answered.
Transactions_loadTransactions(table, shown) ==
    /\ \E ok \in BOOLEAN :
        txTransactions' = IF ok THEN SelectSeq(table, LAMBDA t : t.user_id = user)
                          ELSE shown
    /\ txLoading' = FALSE

\* The page is mounted and its effect runs both loads.
Transactions_useEffect ==
    /\ Transactions_loadCategories(NoCategory)
    /\ Transactions_loadTransactions(transactions, <<>>)
    /\ txShowModal' = FALSE
    /\ UNCHANGED <<today, pageLoads, authVars, flightVars, requestAmount, user, writeError, dueVars, reminderVars, storeVars, budgetVars,
                   pageVars>>

\* The characters of the texts typed.
DigitChars == <<"0", "1", "2", "3", "4", "5", "6", "7", "8", "9">>

IsDigit(c) == \E i \in 1..Len(DigitChars) : DigitChars[i] = c

DigitValue(c) == (CHOOSE i \in 1..Len(DigitChars) : DigitChars[i] = c) - 1

\* The value of a run of digits.
RECURSIVE DigitsValue(_)
DigitsValue(s) ==
    IF s = <<>> THEN 0
    ELSE 10 * DigitsValue(SubSeq(s, 1, Len(s) - 1)) + DigitValue(s[Len(s)])

\* The longest prefix of s made of digits.
RECURSIVE DigitPrefix(_)
DigitPrefix(s) ==
    IF s = <<>> \/ ~IsDigit(Head(s)) THEN <<>> ELSE <<Head(s)>> \o DigitPrefix(Tail(s))

\* <input type="number">: the value is the text when it is a valid number
\* (an optional minus sign and digits), else the empty string.
NumberInputValue(text) ==
    LET body == IF text # <<>> /\ Head(text) = "-" THEN Tail(text) ELSE text
    IN  IF body # <<>> /\ DigitPrefix(body) = body THEN text ELSE <<>>

\* parseFloat: the number at the start of the string, NaN without one.
parseFloat(s) ==
    LET negative == s # <<>> /\ Head(s) = "-"
        digits == DigitPrefix(IF negative THEN Tail(s) ELSE s)
    IN  IF digits = <<>> THEN NaN
        ELSE [k |-> "fin", n |-> (IF negative THEN -1 ELSE 1) * DigitsValue(digits), d |-> 1]

\* The texts typed into the amount field.
AmountTexts ==
    { <<>>, <<"a", "b", "c">>, <<"1", "2", "a">>, <<"-", "1">>, <<"5", "0">> }

\* The options of the category select: the categories of the type chosen.
categoryOptions == SelectSeq(txCategories, LAMBDA cat : cat.type = txFormData.type)

\* The Add Transaction button.
Transactions_openModal ==
    /\ ~txLoading /\ ~txShowModal
    /\ txShowModal' = TRUE
    /\ UNCHANGED <<today, pageLoads, authVars, flightVars, txCategories, txFormData, txTransactions, txLoading,
                   requestAmount, sessionVars, dueVars, reminderVars, storeVars,
                   budgetVars, pageVars>>

\* The form's close and Cancel buttons.
Transactions_closeModal ==
    /\ txShowModal
    /\ txShowModal' = FALSE
    /\ UNCHANGED <<today, pageLoads, authVars, flightVars, txCategories, txFormData, txTransactions, txLoading,
                   requestAmount, sessionVars, dueVars, reminderVars, storeVars,
                   budgetVars, pageVars>>

\* The Income and Expense buttons: setFormData({ ...formData, type }).
Transactions_setType ==
    /\ txShowModal
    /\ \E type \in {"income", "expense"} : txFormData' = [txFormData EXCEPT !.type = type]
    /\ UNCHANGED <<today, pageLoads, authVars, flightVars, txCategories, txShowModal, txTransactions, txLoading,
                   requestAmount, sessionVars, dueVars, reminderVars, storeVars,
                   budgetVars, pageVars>>

\* The category select's onChange, with one of the options shown.
Transactions_selectCategory ==
    /\ txShowModal
    /\ \E i \in 1..Len(categoryOptions) :
        txFormData' = [txFormData EXCEPT !.category_id = categoryOptions[i].id]
    /\ UNCHANGED <<today, pageLoads, authVars, flightVars, txCategories, txShowModal, txTransactions, txLoading,
                   requestAmount, sessionVars, dueVars, reminderVars, storeVars,
                   budgetVars, pageVars>>

\* The amount field's onChange.
Transactions_changeAmount ==
    /\ txShowModal
    /\ \E text \in AmountTexts :
        txFormData' = [txFormData EXCEPT !.amount = NumberInputValue(text)]
    /\ UNCHANGED <<today, pageLoads, authVars, flightVars, txCategories, txShowModal, txTransactions, txLoading,
                   requestAmount, sessionVars, dueVars, reminderVars, storeVars,
                   budgetVars, pageVars>>

\* What the browser checks before it raises the submit event: the amount is
\* required, and so is the select, which shows its first option when the
\* form's category_id is not among the options.
formValid == txFormData.amount # <<>> /\ Len(categoryOptions) > 0

\* Transactions.handleSubmit: the insert, and when the store accepts it the
\* form is closed and reset and the transactions are loaded again.
Transactions_handleSubmit ==
    /\ txShowModal /\ formValid
    /\ Len(transactions) < MaxStoreRows
    /\ LET amount == parseFloat(txFormData.amount)
           row == [id |-> FreshId(transactions), user_id |-> user,
                   category_id |-> txFormData.category_id,
                   amount |-> amount.n,
                   type |-> txFormData.type, date |-> [y |-> 2024, m |-> 3, d |-> 5]]
       IN  /\ requestAmount' = <<amount>>
           /\ IF /\ amount # NaN
                 /\ RlsOwns(row, user)
                 /\ TransactionCheck(row)
                 /\ ReferencesCategory(categories, row.category_id)
              THEN /\ transactions' = Append(transactions, row)
                   /\ writeError' = FALSE
                   /\ txShowModal' = FALSE
                   /\ txFormData' =
                          [amount |-> <<>>, type |-> "expense",
                           category_id |-> IF Len(txCategories) > 0
                                           THEN txCategories[1].id ELSE NoCategory]
                   /\ Transactions_loadTransactions(transactions', txTransactions)
              ELSE /\ writeError' = TRUE
                   /\ UNCHANGED <<transactions, txShowModal, txFormData, txTransactions,
                                  txLoading>>
    /\ UNCHANGED <<today, pageLoads, authVars, flightVars, txCategories, user, categories, dueVars, reminderVars, timezone,
                   budgetVars, pageVars>>

\* Transactions.handleDelete, confirmed: the delete by id, and without an
\* error the transactions are loaded again.
Transactions_handleDelete ==
    /\ ~txLoading
    /\ \E i \in 1..Len(txTransactions) :
        /\ transactions' = SelectSeq(transactions,
               LAMBDA t : ~(t.id = txTransactions[i].id /\ RlsOwns(t, user)))
        /\ writeError' = FALSE
        /\ Transactions_loadTransactions(transactions', txTransactions)
    /\ UNCHANGED <<today, pageLoads, authVars, flightVars, txCategories, txFormData, txShowModal, requestAmount, user,
                   categories, dueVars, reminderVars, timezone, budgetVars, pageVars>>

\* The page of a user with one set of default categories, after its effect
\* has run with both fetches answered.
InitTransactions ==
    /\ today = BudgetToday
    /\ InitDueIdle
    /\ InitRemindersIdle
    /\ InitStoreIdle
    /\ InitBudgetIdle
    /\ InitPagesIdle
    /\ pageLoads = {}
    /\ InitAuthIdle
    /\ InitFlightIdle
    /\ user = "u1"
    /\ categories = {defaultRows("u1", 1)[i] : i \in 1..Len(DefaultCategories)}
    /\ writeError = FALSE
    /\ txCategories = categoriesByName(categories, "u1")
    /\ txFormData = [amount |-> <<>>, type |-> "expense",
                     category_id |-> txCategories[1].id]
    /\ txShowModal = FALSE
    /\ txTransactions = <<>>
    /\ txLoading = FALSE
    /\ requestAmount = <<>>

NextTransactions ==
    \/ Transactions_openModal
    \/ Transactions_closeModal
    \/ Transactions_setType
    \/ Transactions_selectCategory
    \/ Transactions_changeAmount
    \/ Transactions_handleSubmit
    \/ Transactions_handleDelete

SpecTransactions == InitTransactions /\ [][NextTransactions]_vars

\* Two users open the Transactions page, each any number of times.
InitCategories ==
    /\ today = BudgetToday
    /\ InitDueIdle
    /\ InitRemindersIdle
    /\ InitStoreIdle
    /\ InitBudgetIdle
    /\ InitPagesIdle
    /\ pageLoads = {}
    /\ InitAuthIdle
    /\ InitFlightIdle
    /\ InitTxPageIdle
    /\ InitSessionIdle

\* signIn as the other user: the pages start anew.
Auth_switchUser ==
    /\ \E u \in Users \ {user} : user' = u
    /\ txCategories' = <<>>
    /\ txFormData' = [amount |-> <<>>, type |-> "expense", category_id |-> NoCategory]
    /\ txShowModal' = FALSE
    /\ txTransactions' = <<>>
    /\ txLoading' = TRUE
    /\ UNCHANGED <<today, pageLoads, authVars, flightVars, requestAmount, categories, writeError, dueVars, reminderVars,
                   storeVars, budgetVars, pageVars>>

NextCategories == Transactions_useEffect \/ Auth_switchUser

SpecCategories == InitCategories /\ [][NextCategories]_vars

\* C21: no insert is sent by the Add Transaction form with an amount that is
\* not a number the store accepts: the amount of every request is a number
\* and is not negative.
C21_AmountAcceptable ==
    requestAmount # <<>> =>
        /\ requestAmount[1] # NaN
        /\ requestAmount[1].n >= 0

(***************************************************************************)
(* The Budget page with its loads in flight: the effect starts loadBudgets *)
(* for the month and year selected, and the answers arrive in any order.   *)
(* Every fetch of this part is answered with data.                         *)
(***************************************************************************)

\* The years offered by the year select that the model picks from.
BudgetYears == {2024, 2025}

\* The month or the year select: the state is set and the effect starts a
\* load for the selection.
Budget_select ==
    /\ ~budgetLoading
    /\ \E m \in BudgetMonths, y \in BudgetYears :
        /\ (m # selectedMonth /\ y = selectedYear) \/ (m = selectedMonth /\ y # selectedYear)
        /\ selectedMonth' = m
        /\ selectedYear' = y
        /\ budgetLoads' = budgetLoads \cup {[month |-> m, year |-> y]}
    /\ UNCHANGED <<today, pageLoads, authVars, remPending, remCategories, toggled, txPageVars, sessionVars, dueVars,
                   reminderVars, storeVars, pageVars, budgetsTable, budgets,
                   budgetLoading, showModal>>

\* The answers to one loadBudgets call arrive, both with data: the list is
\* set to the budgets of the month and year the call was started for.
Budget_loadBudgetsAnswered ==
    /\ \E load \in budgetLoads :
        /\ budgetLoads' = budgetLoads \ {load}
        /\ \E budgetData \in {{b \in budgetsTable : /\ b.user_id = user
                                                     /\ b.month = load.month
                                                     /\ b.year = load.year}} :
               budgets' = budgetsWithSpent(budgetData,
                              monthExpenses(transactions, load.month, load.year, timezone))
        /\ budgetLoading' = FALSE
    /\ UNCHANGED <<today, pageLoads, authVars, remPending, remCategories, toggled, txPageVars, sessionVars, dueVars,
                   reminderVars, storeVars, pageVars, budgetsTable, selectedMonth,
                   selectedYear, showModal>>

\* Budgets of the first category in each month and year of the selects.
StaleBudgets ==
    {[user_id |-> "u1", category_id |-> "c1", amount |-> 100 * m + (y - 2024),
      month |-> m, year |-> y] : m \in BudgetMonths, y \in BudgetYears}

\* The page is mounted and its first load is in flight.
InitStale ==
    /\ today = BudgetToday
    /\ InitDueIdle
    /\ InitRemindersIdle
    /\ timezone = 0
    /\ transactions \in UNION {[1..n -> BudgetTxRows] : n \in 0..1}
    /\ budgetsTable = StaleBudgets
    /\ budgets = {}
    /\ budgetLoading = TRUE
    /\ selectedMonth = getMonth(today) + 1
    /\ selectedYear = getFullYear(today)
    /\ showModal = FALSE
    /\ InitPagesIdle
    /\ pageLoads = {}
    /\ InitAuthIdle
    /\ InitTxPageIdle
    /\ InitSessionIdle
    /\ budgetLoads = {[month |-> selectedMonth, year |-> selectedYear]}
    /\ remPending = {}
    /\ remCategories = <<>>
    /\ toggled = {}

NextStale == Budget_select \/ Budget_loadBudgetsAnswered

SpecStale == InitStale /\ [][NextStale]_vars

\* C22: once no load is in flight, the budgets shown are those of the month
\* and year selected.
C22_ShownIsSelected ==
    budgetLoads = {} =>
        \A b \in budgets : b.month = selectedMonth /\ b.year = selectedYear

(***************************************************************************)
(* The Reminders page with its loads in flight: the effect starts          *)
(* loadCategories and loadReminders together, and a toggle starts          *)
(* loadReminders again.                                                    *)
(***************************************************************************)

\* The page is mounted: its state is the initial one and the effect starts
\* both loads.
Reminders_useEffect ==
    /\ reminders' = <<>>
    /\ remCategories' = <<>>
    /\ remindersLoading' = TRUE
    /\ remPending' = {"categories", "reminders"}
    /\ UNCHANGED <<today, pageLoads, authVars, budgetLoads, toggled, txPageVars, sessionVars, dueVars,
                   bill_reminders, notifications, headerData, storeVars, budgetVars,
                   pageVars>>

\* select('id, name, color').eq('user_id', user.id).eq('type', 'expense')
\* .order('name').
expenseCategories(cats, uid) ==
    SelectSeq(categoriesByName(cats, uid), LAMBDA c : c.type = "expense")

\* Reminders.loadCategories, answered: the categories are set when data
\* arrives.
Reminders_loadCategoriesAnswered ==
    /\ "categories" \in remPending
    /\ remPending' = remPending \ {"categories"}
    /\ \E ok \in BOOLEAN :
        IF ok THEN remCategories' = expenseCategories(categories, user)
        ELSE UNCHANGED remCategories
    /\ UNCHANGED <<today, pageLoads, authVars, budgetLoads, toggled, txPageVars, sessionVars, dueVars,
                   reminderVars, storeVars, budgetVars, pageVars>>

remindersFetchStarted_afterCategories == remPending = {"reminders"}

\* loadReminders is called by the effect right after loadCategories, without
\* awaiting it: its fetch is in flight whenever it was started.
remindersFetchStarted == "reminders" \in remPending

\* Reminders.loadReminders, answered: the list is replaced when data
\* arrives, and the loading flag is cleared either way.
Reminders_loadRemindersAnswered ==
    /\ remindersFetchStarted
    /\ remPending' = remPending \ {"reminders"}
    /\ \E ok \in BOOLEAN :
        IF ok
        THEN reminders' = OrderByDueDate(SelectSeq(bill_reminders,
                                                   LAMBDA r : r.user_id = user))
        ELSE UNCHANGED reminders
    /\ remindersLoading' = FALSE
    /\ UNCHANGED <<today, pageLoads, authVars, budgetLoads, remCategories, toggled, txPageVars, sessionVars,
                   dueVars, bill_reminders, notifications, headerData, storeVars,
                   budgetVars, pageVars>>

toggleUpdate_replace(row, currentStatus) ==
    [row EXCEPT !.is_active = ~currentStatus, !.is_recurring = TRUE]

\* update({ is_active: !currentStatus }): the other columns are not named.
toggleUpdate(row, currentStatus) == [row EXCEPT !.is_active = ~currentStatus]

\* Reminders.handleToggleActive(reminder.id, reminder.is_active) for a
\* reminder of the list shown: the update by id, and without an error
\* loadReminders is started.
Reminders_handleToggleActive ==
    /\ ~remindersLoading
    /\ \E k \in 1..Len(reminders) :
        LET id == reminders[k].id
            currentStatus == reminders[k].is_active
        IN  /\ bill_reminders' =
                   [i \in 1..Len(bill_reminders) |->
                       IF bill_reminders[i].id = id /\ RlsOwns(bill_reminders[i], user)
                       THEN toggleUpdate(bill_reminders[i], currentStatus)
                       ELSE bill_reminders[i]]
            /\ toggled' = IF id \in toggled THEN toggled \ {id} ELSE toggled \cup {id}
    /\ writeError' = FALSE
    /\ remPending' = remPending \cup {"reminders"}
    /\ UNCHANGED <<today, pageLoads, authVars, budgetLoads, remCategories, txPageVars, user, categories,
                   dueVars, notifications, headerData, reminders, remindersLoading,
                   storeVars, budgetVars, pageVars>>

\* Two reminders of the user, both active, the first with a category.
PageReminders ==
    << [id |-> 1, user_id |-> "u1", title |-> "Rent", amount |-> 900, due_date |-> 1,
        category_id |-> CategoryId("u1", "Bills", 1), is_recurring |-> TRUE,
        is_active |-> TRUE],
       [id |-> 2, user_id |-> "u1", title |-> "Gym", amount |-> 30, due_date |-> 15,
        category_id |-> NULL, is_recurring |-> FALSE, is_active |-> TRUE] >>

InitRemindersPage ==
    /\ today = BudgetToday
    /\ InitDueIdle
    /\ bill_reminders = PageReminders
    /\ notifications = 0
    /\ headerData = <<>>
    /\ reminders = <<>>
    /\ remindersLoading = TRUE
    /\ InitStoreIdle
    /\ InitBudgetIdle
    /\ InitPagesIdle
    /\ pageLoads = {}
    /\ InitAuthIdle
    /\ InitTxPageIdle
    /\ user = "u1"
    /\ categories = {defaultRows("u1", 1)[i] : i \in 1..Len(DefaultCategories)}
    /\ writeError = FALSE
    /\ budgetLoads = {}
    /\ remPending = {"categories", "reminders"}
    /\ remCategories = <<>>
    /\ toggled = {}

NextRemindersPage ==
    \/ Reminders_useEffect
    \/ Reminders_loadCategoriesAnswered
    \/ Reminders_loadRemindersAnswered
    \/ Reminders_handleToggleActive

SpecRemindersPage == InitRemindersPage /\ [][NextRemindersPage]_vars

\* What loadReminders shows when its fetch brings data.
C23_RemindersOfStore == OrderByDueDate(SelectSeq(bill_reminders, LAMBDA r : r.user_id = user))

\* C23: the two loads of the Reminders page are started together and do not
\* wait for each other: while a load is in flight its answer can be taken
\* whatever the state of the other; the answer to one load leaves the other
\* list as it is; and an answer either shows the data fetched or, when the
\* fetch failed, leaves the list as it was.
C23_IndependentLoads ==
    /\ [](/\ "reminders" \in remPending => ENABLED Reminders_loadRemindersAnswered
          /\ "categories" \in remPending => ENABLED Reminders_loadCategoriesAnswered
          /\ remindersLoading => "reminders" \in remPending)
    /\ [][/\ ("categories" \in remPending /\ "categories" \notin remPending') =>
                /\ reminders' = reminders
                /\ remCategories' \in {remCategories, expenseCategories(categories, user)}
          /\ ("reminders" \in remPending /\ "reminders" \notin remPending') =>
                /\ remCategories' = remCategories
                /\ reminders' \in {reminders, C23_RemindersOfStore}
                /\ ~remindersLoading'
          /\ ("reminders" \notin remPending /\ "categories" \notin remPending
                /\ "categories" \in remPending') => "reminders" \in remPending']_vars

\* C23 witness: the reminders are shown and the page is no longer loading
\* while the categories load is still in flight, or has failed and left no
\* categories.
C23_Witness ==
    /\ reminders = C23_RemindersOfStore
    /\ ~remindersLoading
    /\ "reminders" \notin remPending
    /\ remCategories = <<>>

\* C25: the active toggle changes only the is_active field of one reminder:
\* in every step that changes the bill_reminders table the rows are the same
\* in number and order, one row differs from before, and it differs in
\* is_active alone.
C25_PartialUpdate ==
    [][bill_reminders' # bill_reminders =>
          /\ Len(bill_reminders') = Len(bill_reminders)
          /\ \E i \in 1..Len(bill_reminders) :
                /\ bill_reminders'[i] =
                       [bill_reminders[i] EXCEPT !.is_active = ~bill_reminders[i].is_active]
                /\ \A j \in 1..Len(bill_reminders) :
                       j # i => bill_reminders'[j] = bill_reminders[j]]_vars

\* C25 witness: the second reminder has been switched off and is otherwise
\* as it was created, and the first is as it was.
C25_Witness ==
    /\ bill_reminders[2] = [PageReminders[2] EXCEPT !.is_active = FALSE]
    /\ bill_reminders[1] = PageReminders[1]

\* C28: every click on a reminder's toggle inverts the value the store
\* holds: a reminder, active at the start, is active in the store exactly
\* when its toggle has been clicked an even number of times.
C28_ClicksInvert ==
    \A i \in 1..Len(bill_reminders) :
        bill_reminders[i].is_active = (bill_reminders[i].id \notin toggled)

\* C24: every transaction written by the Add Transaction form has the type
\* of the category it references.
C24_KindMatchesCategory ==
    \A t \in RowsOf(transactions) :
        \E c \in categories : c.id = t.category_id /\ c.type = t.type

\* C30: a user's categories hold each default name at most once, and the
\* defaults are never inserted for a user who has categories.
C30_DefaultsOnce ==
    /\ [](\A u \in Users : \A a, b \in Visible(categories, u) : a.name = b.name => a = b)
    /\ [][categories' # categories => Visible(categories, user) = {}]_vars

\* C27: getDaysUntilDue returns 0 if and only if the due day is today's day
\* of the month; for a due day that has passed this month it returns at
\* least 1; and the badge reads Due Today only on the due day of an active
\* reminder.
C27_ZeroOnlyOnDueDay ==
    /\ daysUntil # <<>> =>
          /\ (daysUntil[1] = 0) = (dueDate = today.d)
          /\ dueDate < today.d => daysUntil[1] >= 1
    /\ badge # <<>> =>
          (badge[1].text = "Due Today") = (isActive /\ dueDate = today.d)

\* C27 witness: on the last day of a month a bill due on the 1st is one day
\* away, the smallest result of the wrap branch, and its badge is not Due
\* Today.
C27_Witness ==
    /\ today.d = MonthLength(today.y, today.m)
    /\ dueDate = 1
    /\ daysUntil = <<1>>
    /\ isActive
    /\ badge # <<>> /\ badge[1].text = "Due in"

(***************************************************************************)
(* Authentication: AuthProvider over Firebase, and AppContent, which       *)
(* renders the auth form or the pages from what useAuth() returns.         *)
(***************************************************************************)

Emails == {"a@x", "b@x", "c@x"}
Passwords == {"p", "q"}

\* The value AuthProvider passes to AuthContext.Provider.
AuthContextValue == [signUp |-> "signUp", signIn |-> "signIn", signOut |-> "signOut"]

\* A property read from the context value: undefined when it has none.
useAuth(field) ==
    IF field \in DOMAIN AuthContextValue THEN AuthContextValue[field] ELSE "undefined"

\* JavaScript truthiness of the values above.
Truthy(v) == v \notin {"undefined", "null", "", FALSE}

\* AppContent: the spinner while loading, the auth form without a user, else
\* the page chosen, which is the Dashboard at first.
AppContent ==
    LET contextUser == useAuth("user")
        loading == useAuth("loading")
    IN  IF Truthy(loading) THEN "Spinner"
        ELSE IF ~Truthy(contextUser) THEN "AuthForm"
        ELSE "Dashboard"

\* React renders AppContent.
AppContent_render ==
    /\ screen' = AppContent
    /\ UNCHANGED <<today, pageLoads, accounts, firebaseUser, authResult, flightVars, txPageVars,
                   sessionVars, dueVars, reminderVars, storeVars, budgetVars, pageVars>>

\* signUp: createUserWithEmailAndPassword registers the address and signs
\* the new user in; an address already registered is an error.
AuthProvider_signUp ==
    /\ \E email \in Emails, password \in Passwords :
        IF email \in DOMAIN accounts
        THEN /\ authResult' = <<[error |-> "auth/email-already-in-use"]>>
             /\ UNCHANGED <<accounts, firebaseUser>>
        ELSE /\ accounts' = [e \in DOMAIN accounts \cup {email} |->
                                IF e = email THEN password ELSE accounts[e]]
             /\ firebaseUser' = email
             /\ authResult' = <<[user |-> email]>>
    /\ UNCHANGED <<today, pageLoads, screen, flightVars, txPageVars, sessionVars, dueVars,
                   reminderVars, storeVars, budgetVars, pageVars>>

\* signIn: signInWithEmailAndPassword signs the user in when the password
\* is the registered one, else it is an error.
AuthProvider_signIn ==
    /\ \E email \in Emails, password \in Passwords :
        IF email \in DOMAIN accounts /\ accounts[email] = password
        THEN /\ firebaseUser' = email
             /\ authResult' = <<[user |-> email]>>
        ELSE /\ authResult' = <<[error |-> "auth/invalid-credential"]>>
             /\ UNCHANGED firebaseUser
    /\ UNCHANGED <<today, pageLoads, accounts, screen, flightVars, txPageVars, sessionVars, dueVars,
                   reminderVars, storeVars, budgetVars, pageVars>>

InitAuth ==
    /\ today = BudgetToday
    /\ InitDueIdle
    /\ InitRemindersIdle
    /\ InitStoreIdle
    /\ InitBudgetIdle
    /\ InitPagesIdle
    /\ pageLoads = {}
    /\ InitTxPageIdle
    /\ InitSessionIdle
    /\ InitFlightIdle
    /\ accounts = <<>>
    /\ firebaseUser = NoUser
    /\ authResult = <<>>
    /\ screen = "AuthForm"

NextAuth == AuthProvider_signUp \/ AuthProvider_signIn \/ AppContent_render

SpecAuth == InitAuth /\ [][NextAuth]_vars

\* React renders after every change of state.
SpecAuthFair == SpecAuth /\ WF_vars(AppContent_render)

\* The last signUp or signIn call returned a user.
signedIn == authResult # <<>> /\ "user" \in DOMAIN authResult[1]

\* C29: the auth form is on the screen whenever the auth context has no
\* user, and once a sign-in has succeeded the application eventually leaves
\* the auth form and renders the Dashboard.
C29_SignedInReachesDashboard ==
    /\ [](~Truthy(useAuth("user")) => screen = "AuthForm")
    /\ (signedIn ~> screen = "Dashboard")

(***************************************************************************)
(* SpecLoads: the Budget, Analytics and Dashboard pages mounted, each      *)
(* with the load its effect started.  A load is one step here, taken when  *)
(* the last of its fetches is answered; each fetch is answered with data   *)
(* or without.                                                             *)
(***************************************************************************)

\* The longest list of records the model draws.
MaxLoadRecords == 1

Pages == {"budget", "analytics", "dashboard"}

\* What the pages' effects start on mount: `if (user) { load() }`.
started(uid) == IF uid = NULL THEN {} ELSE Pages

\* Budget.loadBudgets, the load started on mount.
Budget_loaded ==
    /\ "budget" \in pageLoads
    /\ loadBudgets(budgetsTable, selectedMonth, selectedYear)
    /\ pageLoads' = pageLoads \ {"budget"}
    /\ UNCHANGED <<today, authVars, flightVars, txPageVars, sessionVars, dueVars,
                   reminderVars, storeVars, pageVars, budgetsTable, selectedMonth,
                   selectedYear, showModal>>

\* Analytics.loadAnalytics, the load started on mount.
Analytics_loaded ==
    /\ "analytics" \in pageLoads
    /\ loadAnalytics
    /\ pageLoads' = pageLoads \ {"analytics"}
    /\ UNCHANGED <<today, authVars, flightVars, txPageVars, sessionVars, dueVars,
                   reminderVars, storeVars, budgetVars, stats, recentTransactions,
                   dashboardLoading>>

\* Dashboard.loadData, the load started on mount.
Dashboard_loaded ==
    /\ "dashboard" \in pageLoads
    /\ loadData
    /\ pageLoads' = pageLoads \ {"dashboard"}
    /\ UNCHANGED <<today, authVars, flightVars, txPageVars, sessionVars, dueVars,
                   reminderVars, storeVars, budgetVars, categoryExpenses, monthlyData,
                   analyticsLoading>>

\* The pages as mounted, with or without a user.
InitLoads ==
    /\ today = AggregateToday
    /\ InitDueIdle
    /\ InitRemindersIdle
    /\ timezone = 0
    /\ transactions \in UNION {[1..n -> AggregateRows] : n \in 0..MaxLoadRecords}
    /\ budgetsTable = PeriodBudgets(today)
    /\ budgets = {}
    /\ budgetLoading = TRUE
    /\ selectedMonth = getMonth(today) + 1
    /\ selectedYear = getFullYear(today)
    /\ showModal = FALSE
    /\ stats = [totalIncome |-> 0, totalExpenses |-> 0, totalSavings |-> 0]
    /\ recentTransactions = <<>>
    /\ dashboardLoading = TRUE
    /\ categoryExpenses = <<>>
    /\ monthlyData = <<>>
    /\ analyticsLoading = TRUE
    /\ InitAuthIdle
    /\ InitFlightIdle
    /\ InitTxPageIdle
    /\ user \in {NULL, "u1"}
    /\ categories = {}
    /\ writeError = FALSE
    /\ pageLoads = started(user)

NextLoads == Budget_loaded \/ Analytics_loaded \/ Dashboard_loaded

SpecLoads == InitLoads /\ [][NextLoads]_vars

\* The step that ends the load of a page: in SpecLoads it is the page's
\* load action, which can be taken whenever the load is in flight.
ended(page) == page \in pageLoads /\ pageLoads' = pageLoads \ {page}

\* Every fetch of a load is answered, with data or with an error, so a
\* load in flight ends.
SpecLoadsFair ==
    /\ SpecLoads
    /\ WF_pageLoads(ended("budget"))
    /\ WF_pageLoads(ended("analytics"))
    /\ WF_pageLoads(ended("dashboard"))

\* What the Budget page shows after its load: the month's budgets with
\* their spending (0 where the expenses did not arrive), or nothing.
C26_BudgetResults ==
    LET budgetData == {b \in budgetsTable : b.user_id = user /\ b.month = selectedMonth
                                            /\ b.year = selectedYear}
    IN  {budgetsWithSpent(budgetData,
                          monthExpenses(transactions, selectedMonth, selectedYear, timezone)),
         budgetsWithSpent(budgetData, <<>>),
         {}}

\* C26: with a user present every page's load ends and clears its loading
\* flag whatever each fetch returned, and no load is started again; the
\* step that ends a load leaves the store's result or, for a fetch that
\* failed, the default: no budgets, zero totals and no recent rows, no
\* category breakdown and zeros for the month.
C26_LoadsFinish ==
    /\ (user # NULL) ~> (~budgetLoading /\ ~analyticsLoading /\ ~dashboardLoading
                         /\ pageLoads = {})
    /\ [][/\ pageLoads' \subseteq pageLoads
          /\ (budgetLoading /\ ~budgetLoading') => budgets' \in C26_BudgetResults
          /\ (dashboardLoading /\ ~dashboardLoading') =>
                \/ /\ stats' = [totalIncome |-> 0, totalExpenses |-> 0, totalSavings |-> 0]
                   /\ recentTransactions' = <<>>
                \/ LET data == OrderByDateDesc(currentMonthRows(transactions, today, timezone))
                   IN  stats' = dashboardStats(data) /\ recentTransactions' = recentOf(data)
          /\ (analyticsLoading /\ ~analyticsLoading') =>
                /\ categoryExpenses' \in
                       {<<>>, categoryData(currentMonthRows(transactions, today, timezone))}
                /\ Len(monthlyData') = 6
                /\ \A k \in 1..6 :
                       monthlyData'[k] \in monthlyOutcomes(transactions, today, timezone, 6 - k)
         ]_vars

\* C26 witness: all three loads ended with every fetch failed; the store
\* holds budgets and a record of the month, and the pages show nothing.
C26_Witness ==
    /\ user # NULL
    /\ pageLoads = {}
    /\ ~budgetLoading /\ ~analyticsLoading /\ ~dashboardLoading
    /\ Len(transactions) = 1 /\ transactions[1].amount = 200
    /\ budgetsTable # {} /\ budgets = {}
    /\ stats.totalExpenses = 0 /\ recentTransactions = <<>>
    /\ categoryExpenses = <<>>
    /\ \A k \in 1..6 : monthlyData[k].income = 0 /\ monthlyData[k].expense = 0

=============================================================================
